---------------------------- MODULE Spec2Model ----------------------------
(***************************************************************************)
(* A model of the localization scripts of the repository:                  *)
(*   scripts/check_localization_completeness.py  (the checker, main())     *)
(*   scripts/generate_missing_translations.py    (escape_string, parser)   *)
(*   scripts/migrate_strings_to_xcstrings.py     (comment-tracking parser) *)
(*                                                                         *)
(* Text is a sequence of tokens.  A token is one character of the .strings *)
(* syntax ("q" is the double quote, "b" the backslash, "eq" the equals     *)
(* sign, "sc" the semicolon, "sp" a space, "nl" a line feed, "n" the       *)
(* letter n), one two-character comment marker ("co" is slash-star, "cc"   *)
(* is star-slash, "sl" is slash-slash), or a word: a run of ordinary       *)
(* characters that none of the patterns of the scripts looks into.         *)
(***************************************************************************)
EXTENDS Integers, Sequences, FiniteSets, TLC

VARIABLES
    pc,                 \* position of the running script
    \* ---- check_localization_completeness.py: main() and its environment
    args,               \* the parsed command line
    fs,                 \* the resource tree under the base directory
    base_file,          \* main: base_file
    base_lang_code,     \* main: base_lang_code
    base_strings,       \* main: base_strings
    base_keys,          \* main: base_keys
    languages_to_check, \* main: languages_to_check
    scan,               \* the codes the running for-loop has yet to visit
    language_files,     \* main: language_files (only with --backup)
    backed_up,          \* backup_localization_files: backed_up
    backups,            \* the files under .localization_backups
    missing_by_lang,    \* main: missing_by_lang
    all_missing,        \* main: all_missing
    stdout,             \* what was printed to standard output
    stderr,             \* what was printed to standard error
    report,             \* the report file
    exit_code,          \* the status the process ends with
    \* ---- drivers of the pure functions
    fn_in,              \* the argument
    fn_out,             \* the result
    \* ---- migrate_strings_to_xcstrings.py: parse_strings_file
    lines,              \* content.split('\n')
    line_no,            \* index of the line the for-loop is at
    strings,            \* strings
    comments,           \* comments
    current_comment,    \* current_comment
    comment_buffer      \* comment_buffer

mainVars == <<args, fs, base_file, base_lang_code, base_strings, base_keys,
              languages_to_check, scan, language_files, backed_up, backups,
              missing_by_lang, all_missing, stdout, stderr, report, exit_code>>
fnVars == <<fn_in, fn_out>>
parseVars == <<lines, line_no, strings, comments, current_comment, comment_buffer>>
vars == <<pc, mainVars, fnVars, parseVars>>

\* An optional value: Python's None, or a value x.
None == <<>>
Some(x) == <<x>>

(***************************************************************************)
(* Bounds of the model.                                                    *)
(***************************************************************************)
MaxLen == 3         \* length of the strings escape_string and unescape are tried on
MaxLines == 3       \* number of lines of a parsed resource file
NumKeys == 2        \* number of distinct keys a resource file of the checker draws from
MaxEntries == 2     \* number of entries of a scanned base directory
MaxStatements == 2  \* number of statements after the first Text of a platformListRow closure
MaxSuites == 2      \* number of test suites the performance analyzer runs
MaxFnLines == 4     \* number of lines of a Swift file of the MainActor fixers
MaxHeader == 2      \* number of lines at the head of a Swift test file
MaxGap == 10        \* number of comment lines between the head and the rest of the file

(***************************************************************************)
(* Strings.                                                                *)
(***************************************************************************)
Q == "q"
B == "b"
NL == "nl"

\* Python's \s, for the white space the model has.
IsSpace(c) == c \in {"sp", "nl"}

\* str.replace(old, new): the occurrences of old, found left to right and
\* not overlapping, each replaced by new.
RECURSIVE Replace(_, _, _)
Replace(s, old, new) ==
    IF Len(s) < Len(old) THEN s
    ELSE IF SubSeq(s, 1, Len(old)) = old
         THEN new \o Replace(SubSeq(s, Len(old) + 1, Len(s)), old, new)
         ELSE <<Head(s)>> \o Replace(Tail(s), old, new)

\* The unescaping of a matched value: the chain of three replacements.
unescape(value) ==
    Replace(Replace(Replace(value, <<B, Q>>, <<Q>>), <<B, "n">>, <<NL>>), <<B, B>>, <<B>>)

\* escape_string(value).
escape_string(value) ==
    Replace(Replace(Replace(value, <<B>>, <<B, B>>), <<Q>>, <<B, Q>>), <<NL>>, <<B, "n">>)

\* str.strip() and its halves.
RECURSIVE LStrip(_)
LStrip(s) == IF s # <<>> /\ IsSpace(Head(s)) THEN LStrip(Tail(s)) ELSE s
RECURSIVE RStrip(_)
RStrip(s) ==
    IF s # <<>> /\ IsSpace(s[Len(s)]) THEN RStrip(SubSeq(s, 1, Len(s) - 1)) ELSE s
Strip(s) == LStrip(RStrip(s))

\* old in s, for a one-token old.
Contains(s, tok) == \E i \in 1..Len(s) : s[i] = tok

\* sep.join(parts)
RECURSIVE Join(_, _)
Join(parts, sep) ==
    IF parts = <<>> THEN <<>>
    ELSE IF Len(parts) = 1 THEN parts[1]
    ELSE parts[1] \o sep \o Join(Tail(parts), sep)

\* The sequences over S of length at most n.
SeqsUpTo(S, n) == UNION {[1..k -> S] : k \in 0..n}

(***************************************************************************)
(* The two patterns for a key-value entry, written with blanks between     *)
(* their parts.  Both begin alike,                                         *)
(*     " ( [^"]+ ) " \s* = \s* "                                           *)
(* and end alike, with  " \s* ;  .  They differ in the value between:      *)
(*     [^"]* (?: \\. [^"]* )*     checker and generator, matched in the     *)
(*                                whole content with re.finditer           *)
(*     (?: [^"\\] | \\. )*        migration, matched in one line with       *)
(*                                re.search                                *)
(* Positions are indices into the text; 0 stands for "no match".           *)
(***************************************************************************)
\* The first position at or after i that holds no white space.
RECURSIVE SkipSpace(_, _)
SkipSpace(s, i) == IF i <= Len(s) /\ IsSpace(s[i]) THEN SkipSpace(s, i + 1) ELSE i

\* The first quote at or after i, or 0.
RECURSIVE NextQuote(_, _)
NextQuote(s, i) ==
    IF i > Len(s) THEN 0 ELSE IF s[i] = Q THEN i ELSE NextQuote(s, i + 1)

\* The common beginning at p: the positions of the key's closing quote and of the
\* first token of the value, or 0 and 0.
EntryHead(s, p) ==
    LET q1 == IF p <= Len(s) /\ s[p] = Q THEN NextQuote(s, p + 1) ELSE 0
        e == IF q1 > p + 1 THEN SkipSpace(s, q1 + 1) ELSE 0
        o == IF e # 0 /\ e <= Len(s) /\ s[e] = "eq" THEN SkipSpace(s, e + 1) ELSE 0
    IN  IF o # 0 /\ o <= Len(s) /\ s[o] = Q
        THEN [key_end |-> q1, value_start |-> o + 1]
        ELSE [key_end |-> 0, value_start |-> 0]

\* The common end with the quote at q: the position of the semicolon, or 0.
EntryTail(s, q) ==
    LET e == SkipSpace(s, q + 1)
    IN  IF e <= Len(s) /\ s[e] = "sc" THEN e ELSE 0

\* The checker's value and the common end: the closing quote of the value that
\* starts at v0, searched from i.  The value runs over a quote only as the
\* second character of an escape, that is when a backslash of the value stands
\* before it; the first quote that ends the pattern is taken.
RECURSIVE CheckerValueEnd(_, _, _)
CheckerValueEnd(s, v0, i) ==
    LET q == NextQuote(s, i)
    IN  IF q = 0 THEN 0
        ELSE IF EntryTail(s, q) # 0 THEN q
        ELSE IF q - 1 >= v0 /\ s[q - 1] = B THEN CheckerValueEnd(s, v0, q + 1)
        ELSE 0

\* The migration's value and the common end: a backslash takes the next character
\* with it (. matches no line feed), and the first quote left over ends the
\* value.
RECURSIVE MigrateValueEnd(_, _)
MigrateValueEnd(s, i) ==
    IF i > Len(s) THEN 0
    ELSE IF s[i] = Q THEN (IF EntryTail(s, i) # 0 THEN i ELSE 0)
    ELSE IF s[i] = B
         THEN (IF i + 1 <= Len(s) /\ s[i + 1] # NL THEN MigrateValueEnd(s, i + 2) ELSE 0)
    ELSE MigrateValueEnd(s, i + 1)

NoMatch == [ok |-> FALSE, key |-> <<>>, value |-> <<>>, end |-> 0]

\* One attempt of a pattern at position p; value_end is the position of the
\* value's closing quote under that pattern (0: none).
MatchWith(s, p, h, value_end) ==
    IF value_end = 0 THEN NoMatch
    ELSE [ok |-> TRUE,
          key |-> SubSeq(s, p + 1, h.key_end - 1),
          value |-> SubSeq(s, h.value_start, value_end - 1),
          end |-> EntryTail(s, value_end)]

CheckerMatchAt(s, p) ==
    LET h == EntryHead(s, p)
    IN  IF h.key_end = 0 THEN NoMatch
        ELSE MatchWith(s, p, h, CheckerValueEnd(s, h.value_start, h.value_start))

MigrateMatchAt(s, p) ==
    LET h == EntryHead(s, p)
    IN  IF h.key_end = 0 THEN NoMatch
        ELSE MatchWith(s, p, h, MigrateValueEnd(s, h.value_start))

\* re.finditer(pattern, content): the matches from position p on, left to
\* right, each search resuming after the previous match.
RECURSIVE FindIter(_, _)
FindIter(content, p) ==
    IF p > Len(content) THEN <<>>
    ELSE LET m == CheckerMatchAt(content, p)
         IN  IF m.ok THEN <<m>> \o FindIter(content, m.end + 1)
             ELSE FindIter(content, p + 1)

\* re.search(pattern, line): the leftmost match from position p on.
RECURSIVE Search(_, _)
Search(line, p) ==
    IF p > Len(line) THEN NoMatch
    ELSE LET m == MigrateMatchAt(line, p)
         IN  IF m.ok THEN m ELSE Search(line, p + 1)

\* A variant of DictSet that keeps the value a key already has.
DictSetKeepFirst(d, key, value) ==
    [k \in DOMAIN d \cup {key} |-> IF k \in DOMAIN d THEN d[k] ELSE value]

\* d[key] = value of a Python dict, a function from the keys it holds.
DictSet(d, key, value) ==
    [k \in DOMAIN d \cup {key} |-> IF k = key THEN value ELSE d[k]]

EmptyDict == [k \in {} |-> <<>>]

\* The loop over the matches: strings[key] = unescaped value.
RECURSIVE StoreMatches(_, _)
StoreMatches(d, matches) ==
    IF matches = <<>> THEN d
    ELSE StoreMatches(DictSet(d, Head(matches).key, unescape(Head(matches).value)),
                      Tail(matches))

\* parse_strings_file of the checker and of the generator, for the content of
\* a file that exists.
ParseContent(content) == StoreMatches(EmptyDict, FindIter(content, 1))

(***************************************************************************)
(* Values the variables of a script hold while another script runs.        *)
(***************************************************************************)
MainIdle ==
    /\ args = None /\ fs = None /\ base_file = None /\ base_lang_code = None
    /\ base_strings = None /\ base_keys = None /\ languages_to_check = None
    /\ scan = None /\ language_files = None /\ backed_up = None /\ backups = None
    /\ missing_by_lang = None /\ all_missing = None /\ stdout = None
    /\ stderr = None /\ report = None /\ exit_code = None

FnIdle == fn_in = None /\ fn_out = None

ParseIdle ==
    /\ lines = None /\ line_no = 0 /\ strings = None /\ comments = None
    /\ current_comment = None /\ comment_buffer = None

(***************************************************************************)
(* escape_string and the unescaping chain, applied one after the other.    *)
(***************************************************************************)
\* The characters the strings are made of: the three that escaping touches,
\* the letter n, and one other letter.
EscapeChars == {Q, B, NL, "n", "x"}

InitEscape ==
    /\ pc = "start"
    /\ fn_in \in SeqsUpTo(EscapeChars, MaxLen)
    /\ fn_out = None
    /\ MainIdle /\ ParseIdle

\* value = escape_string(value)
Escape ==
    /\ pc \in {"start", "unescaped"}
    /\ fn_out' = escape_string(IF pc = "start" THEN fn_in ELSE fn_out)
    /\ pc' = IF pc = "start" THEN "escaped" ELSE "unescaped_escaped"
    /\ UNCHANGED <<fn_in, mainVars, parseVars>>

\* value = value.replace(...).replace(...).replace(...)
Unescape ==
    /\ pc \in {"start", "escaped"}
    /\ fn_out' = unescape(IF pc = "start" THEN fn_in ELSE fn_out)
    /\ pc' = IF pc = "start" THEN "unescaped" ELSE "escaped_unescaped"
    /\ UNCHANGED <<fn_in, mainVars, parseVars>>

NextEscape == Escape \/ Unescape

SpecEscape == InitEscape /\ [][NextEscape]_vars

\* A value made of well-formed escapes: each backslash begins one of the three
\* escapes, and no quote and no line feed stands bare.
RECURSIVE WellFormedEscapes(_)
WellFormedEscapes(v) ==
    IF v = <<>> THEN TRUE
    ELSE IF Head(v) = B
         THEN Len(v) >= 2 /\ v[2] \in {Q, "n", B} /\ WellFormedEscapes(Tail(Tail(v)))
    ELSE Head(v) \notin {Q, NL} /\ WellFormedEscapes(Tail(v))

\* C5: escaping and unescaping round-trip: escape_string(unescape(v)) = v for
\* every value v made of well-formed escapes, and unescape(escape_string(s)) = s
\* for every plain string s.
C5_RoundTrip ==
    /\ (pc = "unescaped_escaped" /\ WellFormedEscapes(fn_in)) => fn_out = fn_in
    /\ pc = "escaped_unescaped" => fn_out = fn_in

(***************************************************************************)
(* The parsers, run on the content of one resource file.                   *)
(*   checker / generator: one pass of re.finditer over the content         *)
(*   migration: a loop over the lines, which also tracks comments          *)
(***************************************************************************)
\* content.split('\n')
RECURSIVE SplitFrom(_, _, _)
SplitFrom(content, i, line) ==
    IF i > Len(content) THEN <<line>>
    ELSE IF content[i] = NL THEN <<line>> \o SplitFrom(content, i + 1, <<>>)
    ELSE SplitFrom(content, i + 1, Append(line, content[i]))
Split(content) == SplitFrom(content, 1, <<>>)

\* A line as the format writes it: "key" = "value";
Entry(key, value) == <<Q, key, Q, "sp", "eq", "sp", Q>> \o value \o <<Q, "sc">>

\* The well-formed lines the parsed files are made of.  A.b stands on two of
\* them, with different values; one value holds an escaped quote and an
\* escaped line feed.
EntryLines ==
    { Entry("A.b", <<"x">>), Entry("A.b", <<"y">>),
      Entry("A.c", <<"x", B, Q, "y", B, "n">>) }

\* The malformed lines: a missing semicolon, a missing closing quote, a
\* missing opening quote.
MalformedLines ==
    { <<Q, "A.b", Q, "sp", "eq", "sp", Q, "z", Q>>,
      <<Q, "A.c", Q, "sp", "eq", "sp", Q, "z", "sc">>,
      <<"A.c", Q, "sp", "eq", "sp", Q, "z", Q, "sc">> }

\* Comment lines and other text: a block comment on one line, a line comment,
\* the first and the last line of a block comment of several lines, plain
\* text, an empty line, an empty block comment.
CommentLines ==
    { <<"co", "sp", "c1", "sp", "cc">>, <<"sl", "sp", "c2">>,
      <<"co", "sp", "c3">>, <<"c4", "sp", "cc">>,
      <<"c5">>, <<>>, <<"co", "cc">> }

ParseLines == EntryLines \cup MalformedLines \cup CommentLines

\* The contents a parsed file may have.
ParseContents ==
    {Join(ls, <<NL>>) : ls \in SeqsUpTo(ParseLines, MaxLines) \ {<<>>}}

\* stripped.startswith(tok), for a one-token tok.
StartsWith(s, tok) == s # <<>> /\ s[1] = tok

\* s.rstrip('*/'): the comment markers are made of these two characters.
RECURSIVE RStripMarkers(_)
RStripMarkers(s) ==
    IF s # <<>> /\ s[Len(s)] \in {"co", "cc", "sl"}
    THEN RStripMarkers(SubSeq(s, 1, Len(s) - 1)) ELSE s

\* if x: for an optional string x.
Truthy(x) == x # None /\ x[1] # <<>>

\* The comment branches of the loop body: the new current_comment and
\* comment_buffer after the line.
CollectComment(line, cur, buf) ==
    LET stripped == Strip(line)
    IN  IF StartsWith(stripped, "co")
        THEN LET comment_text == Strip(RStripMarkers(Tail(stripped)))
             IN  IF Contains(stripped, "cc")
                 THEN [current_comment |-> Some(comment_text), comment_buffer |-> buf]
                 ELSE [current_comment |-> cur, comment_buffer |-> <<comment_text>>]
        ELSE IF Contains(stripped, "cc") /\ buf # <<>>
        THEN [current_comment |->
                  Some(Strip(Join(Append(buf, Strip(RStripMarkers(stripped))), <<"sp">>))),
              comment_buffer |-> <<>>]
        ELSE IF buf # <<>>
        THEN [current_comment |-> cur, comment_buffer |-> Append(buf, stripped)]
        ELSE IF StartsWith(stripped, "sl")
        THEN [current_comment |-> Some(Strip(Tail(stripped))), comment_buffer |-> buf]
        ELSE [current_comment |-> cur, comment_buffer |-> buf]

\* A variant of StoreComment that forgets to reset the pending comment.
StoreCommentNoReset(cmts, cur, key) ==
    IF Truthy(cur)
    THEN [comments |-> DictSet(cmts, key, cur[1]), current_comment |-> cur]
    ELSE [comments |-> cmts, current_comment |-> cur]

\* "Store comment if we have one": the new comments and current_comment.
StoreComment(cmts, cur, key) ==
    IF Truthy(cur)
    THEN [comments |-> DictSet(cmts, key, cur[1]), current_comment |-> None]
    ELSE [comments |-> cmts, current_comment |-> cur]

InitParse ==
    /\ pc = "start"
    /\ fn_in \in ParseContents
    /\ fn_out = None
    /\ MainIdle /\ ParseIdle

\* The checker's parse_strings_file on a file with content fn_in.
CheckerParseFile ==
    /\ pc = "start"
    /\ fn_out' = ParseContent(fn_in)
    /\ pc' = "checker_parsed"
    /\ UNCHANGED <<fn_in, mainVars, parseVars>>

\* The migration's parse_strings_file up to its loop.
MigrateReadFile ==
    /\ pc = "start"
    /\ lines' = Split(fn_in)
    /\ line_no' = 1
    /\ strings' = EmptyDict
    /\ comments' = EmptyDict
    /\ current_comment' = None
    /\ comment_buffer' = <<>>
    /\ pc' = "loop"
    /\ UNCHANGED <<mainVars, fnVars>>

\* One turn of the loop over the lines.
MigrateParseLine ==
    /\ pc = "loop"
    /\ line_no <= Len(lines)
    /\ LET line == lines[line_no]
           c == CollectComment(line, current_comment, comment_buffer)
           match == Search(line, 1)
           st == StoreComment(comments, c.current_comment, match.key)
       IN  /\ comment_buffer' = c.comment_buffer
           /\ IF match.ok
              THEN /\ strings' = DictSet(strings, match.key, unescape(match.value))
                   /\ comments' = st.comments
                   /\ current_comment' = st.current_comment
              ELSE /\ current_comment' = c.current_comment
                   /\ UNCHANGED <<strings, comments>>
    /\ line_no' = line_no + 1
    /\ UNCHANGED <<pc, lines, mainVars, fnVars>>

\* return strings, comments
MigrateReturn ==
    /\ pc = "loop"
    /\ line_no > Len(lines)
    /\ pc' = "returned"
    /\ UNCHANGED <<mainVars, fnVars, parseVars>>

NextParse == CheckerParseFile \/ MigrateReadFile \/ MigrateParseLine \/ MigrateReturn

SpecParse == InitParse /\ [][NextParse]_vars

(***************************************************************************)
(* Properties of the parsers.                                              *)
(***************************************************************************)
\* The key and the raw value a well-formed line was written with.
EntryKey(line) == <<line[2]>>
EntryValue(line) == SubSeq(line, 8, Len(line) - 2)

\* The lines of a file without its malformed lines.
RECURSIVE DropMalformed(_)
DropMalformed(ls) ==
    IF ls = <<>> THEN <<>>
    ELSE IF Head(ls) \in MalformedLines THEN DropMalformed(Tail(ls))
    ELSE <<Head(ls)>> \o DropMalformed(Tail(ls))

\* What the lines hold when each line is read on its own, in file order.
RECURSIVE LineMatches(_)
LineMatches(ls) ==
    IF ls = <<>> THEN <<>>
    ELSE LET m == Search(Head(ls), 1)
         IN  (IF m.ok THEN <<m>> ELSE <<>>) \o LineMatches(Tail(ls))

\* C6, for the checker's parser: the parsed mapping is the one of the file
\* with its malformed lines left out.
C6_CheckerSkipsMalformed ==
    pc = "checker_parsed"
        => fn_out = ParseContent(Join(DropMalformed(Split(fn_in)), <<NL>>))

\* C6, for the migration's parser: the same.
C6_MigrateSkipsMalformed ==
    pc = "returned"
        => strings = StoreMatches(EmptyDict, LineMatches(DropMalformed(lines)))

\* C6: a malformed line (missing semicolon, unbalanced quotes) is skipped: it
\* contributes no key and changes nothing parsed from a well-formed line, in
\* either parser.
C6_MalformedSkipped == C6_CheckerSkipsMalformed /\ C6_MigrateSkipsMalformed

\* The positions of the well-formed lines with key k.
EntryPositions(ls, k) == {i \in 1..Len(ls) : ls[i] \in EntryLines /\ EntryKey(ls[i]) = k}
LastPosition(ls, k) ==
    CHOOSE i \in EntryPositions(ls, k) : \A j \in EntryPositions(ls, k) : j <= i
WrittenKeys(ls) == {EntryKey(ls[i]) : i \in {j \in 1..Len(ls) : ls[j] \in EntryLines}}

\* The mapping d holds, for every key written on a well-formed line of ls, the
\* value of the last such line.
LastWins(d, ls) ==
    \A k \in WrittenKeys(ls) :
        k \in DOMAIN d /\ d[k] = unescape(EntryValue(ls[LastPosition(ls, k)]))

\* C7: a key that stands on several well-formed lines has one entry in the
\* parsed mapping, with the value of its last occurrence in file order, in
\* both parsers.
C7_LastOccurrenceWins ==
    /\ pc = "checker_parsed" => LastWins(fn_out, Split(fn_in))
    /\ pc = "returned" => LastWins(strings, lines)

\* A file with the key A.b on two well-formed lines, x before y, parsed by the
\* checker to y.
C7_Witness ==
    /\ pc = "checker_parsed"
    /\ \E i, j \in 1..Len(Split(fn_in)) :
          /\ i < j
          /\ Split(fn_in)[i] = Entry("A.b", <<"x">>)
          /\ Split(fn_in)[j] = Entry("A.b", <<"y">>)
    /\ fn_out[<<"A.b">>] = <<"y">>

\* ---- The comments of a file, read off its lines.
\* The line that began the block comment still open after line j, or 0.
RECURSIVE OpenBlock(_, _)
OpenBlock(ls, j) ==
    IF j = 0 THEN 0
    ELSE LET stripped == Strip(ls[j])
         IN  IF StartsWith(stripped, "co")
             THEN (IF Contains(stripped, "cc") THEN OpenBlock(ls, j - 1) ELSE j)
             ELSE IF Contains(stripped, "cc") THEN 0
             ELSE OpenBlock(ls, j - 1)

\* The text of the lines from..to of a block comment of several lines: the
\* lines between its first and its last, without the one-line block comments
\* among them.
RECURSIVE BlockText(_, _, _)
BlockText(ls, from, to) ==
    IF from > to THEN <<>>
    ELSE (IF StartsWith(Strip(ls[from]), "co") THEN <<>> ELSE <<Strip(ls[from])>>)
         \o BlockText(ls, from + 1, to)

\* The comment that ends on line j: a block comment on that one line, the
\* last line of a block comment of several lines, or a line comment outside
\* any block comment.  None when no comment ends there.
CommentEndingAt(ls, j) ==
    LET stripped == Strip(ls[j])
        open == OpenBlock(ls, j - 1)
    IN  IF StartsWith(stripped, "co")
        THEN (IF Contains(stripped, "cc")
              THEN Some(Strip(RStripMarkers(Tail(stripped)))) ELSE None)
        ELSE IF open # 0
        THEN (IF Contains(stripped, "cc")
              THEN Some(Strip(Join(<<Strip(RStripMarkers(Tail(Strip(ls[open]))))>>
                                     \o BlockText(ls, open + 1, j - 1)
                                     \o <<Strip(RStripMarkers(stripped))>>, <<"sp">>)))
              ELSE None)
        ELSE IF StartsWith(stripped, "sl") THEN Some(Strip(Tail(stripped)))
        ELSE None

IsKeyValueLine(line) == Search(line, 1).ok

\* The last key-value line before line i, or 0.
RECURSIVE PreviousKeyLine(_, _)
PreviousKeyLine(ls, i) ==
    IF i <= 1 THEN 0
    ELSE IF IsKeyValueLine(ls[i - 1]) THEN i - 1
    ELSE PreviousKeyLine(ls, i - 1)

\* The comment seen most recently on the lines from..i, None if there is none.
RECURSIVE LatestComment(_, _, _)
LatestComment(ls, from, i) ==
    IF i < from THEN None
    ELSE IF CommentEndingAt(ls, i) # None THEN CommentEndingAt(ls, i)
    ELSE LatestComment(ls, from, i - 1)

\* The comment that belongs to the key-value line i: the one seen most
\* recently since the previous key-value line.
CommentFor(ls, i) == LatestComment(ls, PreviousKeyLine(ls, i) + 1, i)

\* The comment entries the first n lines make: each key-value line with a
\* comment of its own enters it under its key, the others enter nothing.
RECURSIVE CommentEntries(_, _)
CommentEntries(ls, n) ==
    IF n = 0 THEN EmptyDict
    ELSE IF IsKeyValueLine(ls[n]) /\ Truthy(CommentFor(ls, n))
         THEN DictSet(CommentEntries(ls, n - 1), Search(ls[n], 1).key, CommentFor(ls, n)[1])
    ELSE CommentEntries(ls, n - 1)

\* The comment waiting for the next key after the first n lines.
PendingComment(ls, n) == LatestComment(ls, PreviousKeyLine(ls, n + 1) + 1, n)

\* C8: in the comment-tracking parser each key-value line gets the comment seen
\* most recently since the previous key-value line; the pending comment is
\* reset once attached, so no comment is attached to two key-value lines; a
\* key-value line with no comment since the previous one adds no comment entry.
C8_CommentTracking ==
    pc \in {"loop", "returned"}
        => /\ comments = CommentEntries(lines, line_no - 1)
           /\ Truthy(current_comment) <=> Truthy(PendingComment(lines, line_no - 1))
           /\ Truthy(current_comment) => current_comment = PendingComment(lines, line_no - 1)

\* The parser has read a comment, a key-value line and a second key-value
\* line: the first key has the comment and the second has none.
C8_Witness ==
    /\ pc = "returned"
    /\ Len(lines) = 3
    /\ lines[1] = <<"sl", "sp", "c2">>
    /\ lines[2] = Entry("A.b", <<"x">>)
    /\ lines[3] = Entry("A.c", <<"x", B, Q, "y", B, "n">>)
    /\ DOMAIN comments = {<<"A.b">>}
    /\ comments[<<"A.b">>] = <<"c2">>

(***************************************************************************)
(* The resource tree and discover_language_directories.                    *)
(*                                                                         *)
(* A tree is the base directory: whether it exists, and its entries.  An   *)
(* entry has a name (a sequence of name tokens: language codes and the     *)
(* suffix ".lproj"), is a directory or a regular file, and holds a file:   *)
(* for a directory the strings file inside it (None when there is none),   *)
(* for a regular file its own content.                                     *)
(***************************************************************************)
LPROJ == ".lproj"

\* name.endswith('.lproj')
EndsWithLproj(name) == name # <<>> /\ name[Len(name)] = LPROJ

\* item.name.replace('.lproj', '')
LangCodeOf(name) == Replace(name, <<LPROJ>>, <<>>)

\* lang_names.get(lang_code, lang_code), for the codes of the model.
get_language_name(lang_code) ==
    CASE lang_code = <<"en">> -> <<"English">>
      [] lang_code = <<"es">> -> <<"Spanish">>
      [] lang_code = <<"fr">> -> <<"French">>
      [] lang_code = <<"de">> -> <<"German">>
      [] OTHER -> lang_code

\* The orders in which a directory scan may return the entries.
ScanOrders(entries) ==
    {f \in [1..Cardinality(entries) -> entries] :
        \A i, j \in 1..Cardinality(entries) : i # j => f[i] # f[j]}

\* A variant of KeepCode that keeps the base language too.
KeepCodeWithBase(lang_code, base) == TRUE

\* "Skip the base language directory".
KeepCode(lang_code, base) == lang_code # base

\* The loop of discover_language_directories over the scanned items.
RECURSIVE DiscoverLoop(_, _, _)
DiscoverLoop(items, base, languages) ==
    IF items = <<>> THEN languages
    ELSE LET item == Head(items)
             lang_code == LangCodeOf(item.name)
         IN  IF item.is_dir /\ EndsWithLproj(item.name) /\ KeepCode(lang_code, base)
             THEN DiscoverLoop(Tail(items), base,
                               DictSet(languages, lang_code, get_language_name(lang_code)))
             ELSE DiscoverLoop(Tail(items), base, languages)

\* discover_language_directories(base_dir, base_lang_code), the directory scan
\* returning the entries in the given order.
discover_language_directories(tree, base, order) ==
    IF ~tree.dir_exists THEN EmptyDict ELSE DiscoverLoop(order, base, EmptyDict)

\* The names of the entries of a scanned directory.
DiscoverNames ==
    UNION {{<<c>>, <<c, LPROJ>>, <<c, LPROJ, LPROJ>>} : c \in {"en", "es"}} \cup {<<LPROJ>>}

DiscoverEntries == [name : DiscoverNames, is_dir : BOOLEAN, file : {None}]

\* The trees a scan is tried on: at most MaxEntries entries, no name twice; a
\* directory that does not exist has no entries.
DiscoverTrees ==
    {[dir_exists |-> TRUE, entries |-> es] :
        es \in {r \in {{f[i] : i \in DOMAIN f} : f \in SeqsUpTo(DiscoverEntries, MaxEntries)} :
                    \A a, b \in r : a.name = b.name => a = b}}
    \cup {[dir_exists |-> FALSE, entries |-> {}]}

InitDiscover ==
    /\ pc = "start"
    /\ fn_in \in [tree : DiscoverTrees, base_lang_code : {<<"en">>, <<"es">>, <<"fr">>}]
    /\ fn_out = None
    /\ MainIdle /\ ParseIdle

\* languages = discover_language_directories(base_dir, base_lang_code)
Discover ==
    /\ pc = "start"
    /\ \E order \in ScanOrders(fn_in.tree.entries) :
          fn_out' = discover_language_directories(fn_in.tree, fn_in.base_lang_code, order)
    /\ pc' = "discovered"
    /\ UNCHANGED <<fn_in, mainVars, parseVars>>

NextDiscover == Discover

SpecDiscover == InitDiscover /\ [][NextDiscover]_vars

\* The codes c such that a directory named c.lproj exists.
LprojCodes(tree) ==
    {SubSeq(e.name, 1, Len(e.name) - 1) :
        e \in {d \in tree.entries : d.is_dir /\ EndsWithLproj(d.name)}}

\* C9: discover_language_directories returns exactly the codes c such that a
\* directory named c.lproj exists and c differs from the base code.
C9_DiscoverExact ==
    pc = "discovered"
        => DOMAIN fn_out = LprojCodes(fn_in.tree) \ {fn_in.base_lang_code}

\* The part of C9 that the code keeps: the base code is never returned, and on
\* a tree whose directory names hold ".lproj" once the result is exact.
DiscoverExcludesBase ==
    pc = "discovered"
        => /\ fn_in.base_lang_code \notin DOMAIN fn_out
           /\ (\A e \in fn_in.tree.entries : Len(e.name) <= 2)
                 => DOMAIN fn_out = LprojCodes(fn_in.tree) \ {fn_in.base_lang_code}

(***************************************************************************)
(* check_localization_completeness.py: main().                             *)
(***************************************************************************)
FILENAME == "Localizable.strings"

\* The keys the resource files of a run are written with.
KeyNames == <<"A.b", "A.c", "A.d", "A.e">>
Keys == {KeyNames[i] : i \in 1..NumKeys}

\* The languages besides the base language en.
Langs == {"es", "fr"}

\* The content of a file that lists the keys ks, in the order of KeyNames.
RECURSIVE EntriesFrom(_, _)
EntriesFrom(ks, i) ==
    IF i > Len(KeyNames) THEN <<>>
    ELSE (IF KeyNames[i] \in ks THEN <<Entry(KeyNames[i], <<"v">>)>> ELSE <<>>)
         \o EntriesFrom(ks, i + 1)
FileText(ks) == Join(EntriesFrom(ks, 1), <<NL>>)

\* The first n keys: the base file's keys, up to renaming.
FirstKeys(n) == {KeyNames[i] : i \in 1..n}

\* The directory of a language: absent, without a strings file, or with a
\* strings file that lists some of the keys.
LprojDir(code, file) == [name |-> <<code, LPROJ>>, is_dir |-> TRUE, file |-> file]
BaseDirChoices ==
    {{}} \cup {{LprojDir("en", f)} : f \in {None} \cup {Some(FileText(FirstKeys(n))) : n \in 0..NumKeys}}
LangDirChoices(code) ==
    {{}} \cup {{LprojDir(code, f)} : f \in {None} \cup {Some(FileText(ks)) : ks \in SUBSET Keys}}

\* A strings file directly in the base directory, or none.
AltFileChoices ==
    {{}, {[name |-> <<FILENAME>>, is_dir |-> FALSE, file |-> Some(FileText(Keys))]}}

\* The trees a run of the checker starts on.
MainTrees ==
    {[dir_exists |-> TRUE, entries |-> b \cup a \cup UNION {l[c] : c \in Langs}] :
        b \in BaseDirChoices, a \in AltFileChoices,
        l \in {f \in [Langs -> UNION {LangDirChoices(c) : c \in Langs}] :
                  \A c \in Langs : f[c] \in LangDirChoices(c)}}
    \cup {[dir_exists |-> FALSE, entries |-> {}]}

\* The command lines: --base-file (the directory that holds the file) or the
\* base directory with --base-lang, --languages, --quiet, --no-report, --backup,
\* and --report with a path: here the path of the strings file of es.
MainArgs ==
    {a \in [base_file : {None, Some(<<"en", LPROJ>>)},
            base_lang : {<<"en">>},
            languages : {None} \cup {Some(<<<<"fr">>, <<"es">>>>)},
            report : {None, Some(<<"es", LPROJ>>)},
            quiet : BOOLEAN, no_report : BOOLEAN, backup : BOOLEAN] :
        a.no_report => a.report = None}

\* The file an entry of the tree holds; None when the path does not exist.
FileAt(tree, name) ==
    IF \E e \in tree.entries : e.name = name
    THEN (CHOOSE e \in tree.entries : e.name = name).file
    ELSE None

\* find_base_language_file(base_dir, base_lang_code, filename)
find_base_language_file(tree, lang_code) ==
    IF FileAt(tree, lang_code \o <<LPROJ>>) # None THEN Some(lang_code \o <<LPROJ>>)
    ELSE IF FileAt(tree, <<FILENAME>>) # None THEN Some(<<FILENAME>>)
    ELSE None

\* find_language_file(base_dir, lang_code, filename)
find_language_file(tree, lang_code) ==
    IF FileAt(tree, lang_code \o <<LPROJ>>) # None THEN Some(lang_code \o <<LPROJ>>)
    ELSE None

\* A variant of parse_strings_file that stops after the first entry.
parse_first_entry(tree, path) ==
    IF FileAt(tree, path) = None THEN EmptyDict
    ELSE LET matches == FindIter(FileAt(tree, path)[1], 1)
         IN  StoreMatches(EmptyDict, IF matches = <<>> THEN <<>> ELSE <<Head(matches)>>)

\* parse_strings_file(file_path), for the path of a file of the tree.
parse_strings_file(tree, path) ==
    IF FileAt(tree, path) = None THEN EmptyDict ELSE ParseContent(FileAt(tree, path)[1])

\* A variant of find_missing_keys that reports the keys of the language file
\* that the base file lacks as well.
find_missing_keys_both(base, lang) == (base \ lang) \cup (lang \ base)

\* find_missing_keys(base_keys, lang_keys)
find_missing_keys(base, lang) == base \ lang

\* The order of Python's str on the name tokens, and on codes.
TokenRank(t) ==
    CASE t = LPROJ -> 0 [] t = "de" -> 1 [] t = "en" -> 2 [] t = "es" -> 3
      [] t = "fr" -> 4 [] t = "ja" -> 5 [] OTHER -> 6
RECURSIVE CodeLess(_, _)
CodeLess(a, b) ==
    IF b = <<>> THEN FALSE
    ELSE IF a = <<>> THEN TRUE
    ELSE IF Head(a) = Head(b) THEN CodeLess(Tail(a), Tail(b))
    ELSE TokenRank(Head(a)) < TokenRank(Head(b))

\* A variant of Sorted that yields one of the codes only.
SortedOneOnly(codes) == IF codes = {} THEN <<>> ELSE <<CHOOSE c \in codes : TRUE>>

\* sorted(codes)
RECURSIVE Sorted(_)
Sorted(codes) ==
    IF codes = {} THEN <<>>
    ELSE LET first == CHOOSE c \in codes : \A d \in codes \ {c} : CodeLess(c, d)
         IN  <<first>> \o Sorted(codes \ {first})

\* A printed line: what it says, about which language, with which count and keys.
Msg(what, lang, n, keys) == [msg |-> what, lang |-> lang, n |-> n, keys |-> keys]

\* A variant of print that does not look at --quiet.
print_always(out, quiet, messages) == out \o messages

\* print(...) unless --quiet
print(out, quiet, messages) == IF quiet THEN out ELSE out \o messages

InitMain ==
    /\ pc = "start"
    /\ args \in MainArgs
    /\ fs \in MainTrees
    /\ base_file = None /\ base_lang_code = None
    /\ base_strings = EmptyDict /\ base_keys = {}
    /\ languages_to_check = EmptyDict
    /\ scan = <<>> /\ language_files = <<>> /\ backed_up = <<>> /\ backups = {}
    /\ missing_by_lang = EmptyDict /\ all_missing = {}
    /\ stdout = <<>> /\ stderr = <<>> /\ report = None /\ exit_code = None
    /\ FnIdle /\ ParseIdle

\* return 1, after the error or warning printed to standard error
Exit(code, message) ==
    /\ pc' = "usage_error"
    /\ exit_code' = Some(code)
    /\ stderr' = stderr \o message

\* "Determine base file location" and the three lines printed after it.
LocateBaseFile ==
    /\ pc = "start"
    /\ LET found == IF args.base_file # None
                    THEN (IF FileAt(fs, args.base_file[1]) # None THEN args.base_file ELSE None)
                    ELSE find_base_language_file(fs, args.base_lang)
       IN  IF found = None
           THEN /\ Exit(1, <<Msg("Error: Base file not found", <<>>, 0, {})>>)
                /\ UNCHANGED <<base_file, base_lang_code, stdout>>
           ELSE /\ base_file' = found
                /\ base_lang_code' = IF args.base_file # None
                                     THEN LangCodeOf(found[1]) ELSE args.base_lang
                /\ stdout' = print(stdout, args.quiet,
                                   <<Msg("Base directory", <<>>, 0, {}),
                                     Msg("Base language file", found[1], 0, {}),
                                     Msg("Parsing base language file", base_lang_code', 0, {})>>)
                /\ pc' = "parse_base"
                /\ UNCHANGED <<stderr, exit_code>>
    /\ UNCHANGED <<args, fs, base_strings, base_keys, languages_to_check, scan,
                   language_files, backed_up, backups, missing_by_lang, all_missing,
                   report, fnVars, parseVars>>

\* "Parse base language file"
ParseBase ==
    /\ pc = "parse_base"
    /\ base_strings' = parse_strings_file(fs, base_file[1])
    /\ base_keys' = DOMAIN base_strings'
    /\ stdout' = print(stdout, args.quiet,
                       <<Msg("Found keys", <<>>, Cardinality(base_keys'), {})>>)
    /\ IF Cardinality(base_keys') = 0
       THEN Exit(1, <<Msg("Warning: No keys found", <<>>, 0, {})>>)
       ELSE pc' = "languages" /\ UNCHANGED <<stderr, exit_code>>
    /\ UNCHANGED <<args, fs, base_file, base_lang_code, languages_to_check, scan,
                   language_files, backed_up, backups, missing_by_lang, all_missing,
                   report, fnVars, parseVars>>

\* {lang: get_language_name(lang) for lang in args.languages}
RECURSIVE NamedLanguages(_)
NamedLanguages(codes) ==
    IF codes = <<>> THEN EmptyDict
    ELSE DictSet(NamedLanguages(SubSeq(codes, 1, Len(codes) - 1)),
                 codes[Len(codes)], get_language_name(codes[Len(codes)]))

\* "Determine which languages to check"
DetermineLanguages ==
    /\ pc = "languages"
    /\ \E order \in ScanOrders(fs.entries) :
          languages_to_check' =
              IF args.languages # None THEN NamedLanguages(args.languages[1])
              ELSE discover_language_directories(fs, base_lang_code, order)
    /\ IF DOMAIN languages_to_check' = {}
       THEN /\ Exit(1, <<Msg("Warning: No language directories found", <<>>, 0, {})>>)
            /\ UNCHANGED stdout
       ELSE /\ pc' = IF args.backup THEN "backup" ELSE "check"
            /\ stdout' = print(stdout, args.quiet,
                               <<Msg("Checking languages", <<>>,
                                     Cardinality(DOMAIN languages_to_check'), {})>>)
            /\ UNCHANGED <<stderr, exit_code>>
    /\ UNCHANGED <<args, fs, base_file, base_lang_code, base_strings, base_keys, scan,
                   language_files, backed_up, backups, missing_by_lang, all_missing,
                   report, fnVars, parseVars>>

\* list(dict.fromkeys(codes)): the codes in the order of their first occurrence.
RECURSIVE FirstOccurrences(_)
FirstOccurrences(codes) ==
    IF codes = <<>> THEN <<>>
    ELSE LET rest == FirstOccurrences(SubSeq(codes, 1, Len(codes) - 1))
             last == codes[Len(codes)]
         IN  IF \E i \in 1..Len(rest) : rest[i] = last THEN rest ELSE Append(rest, last)

\* The orders in which languages_to_check.keys() may come: the order of
\* --languages, or the order of the directory scan.
KeyOrders ==
    IF args.languages # None THEN {FirstOccurrences(args.languages[1])}
    ELSE ScanOrders(DOMAIN languages_to_check)

\* The languages of codes that have a file, in that order.
RECURSIVE WithFile(_, _)
WithFile(tree, codes) ==
    IF codes = <<>> THEN <<>>
    ELSE (IF find_language_file(tree, Head(codes)) # None THEN <<Head(codes)>> ELSE <<>>)
         \o WithFile(tree, Tail(codes))

\* "Create backups if requested": the list language_files.
CollectLanguageFiles ==
    /\ pc = "backup"
    /\ \E order \in KeyOrders : language_files' = WithFile(fs, order)
    /\ pc' = "backup_base"
    /\ UNCHANGED <<args, fs, base_file, base_lang_code, base_strings, base_keys,
                   languages_to_check, scan, backed_up, backups, missing_by_lang,
                   all_missing, stdout, stderr, report, exit_code, fnVars, parseVars>>

\* A variant of AfterFailedCopy in which the exception is not caught.
AfterFailedCopyUncaught(next) == "crashed"

\* create_backup when the copy raises: "except Exception", a warning, return
\* None, and the caller goes on at next.
AfterFailedCopy(next) == next

\* create_backup(file_path, backup_dir, lang_code) and the lines of
\* backup_localization_files that use its result.  copy_ok: mkdir and copy2
\* raise nothing.
BackupOne(path, lang_code, copy_ok, next) ==
    IF copy_ok
    THEN /\ backups' = backups \cup {[lang |-> lang_code, content |-> FileAt(fs, path)[1]]}
         /\ backed_up' = Append(backed_up, lang_code)
         /\ stdout' = print(stdout, args.quiet, <<Msg("Backed up", lang_code, 0, {})>>)
         /\ pc' = next
         /\ UNCHANGED <<stderr, exit_code>>
    ELSE /\ stderr' = Append(stderr, Msg("Warning: Failed to backup", lang_code, 0, {}))
         /\ pc' = AfterFailedCopy(next)
         /\ exit_code' = IF pc' = "crashed" THEN Some(1) ELSE exit_code
         /\ UNCHANGED <<backups, backed_up, stdout>>

\* backup_localization_files: "Backup base file"
BackupBaseFile ==
    /\ pc = "backup_base"
    /\ \E copy_ok \in BOOLEAN :
          BackupOne(base_file[1], base_lang_code, copy_ok, "backup_languages")
    /\ UNCHANGED <<args, fs, base_file, base_lang_code, base_strings, base_keys,
                   languages_to_check, scan, language_files, missing_by_lang,
                   all_missing, report, fnVars, parseVars>>

\* backup_localization_files: "Backup language files", one turn of the loop
BackupLanguageFile ==
    /\ pc = "backup_languages"
    /\ language_files # <<>>
    /\ \E copy_ok \in BOOLEAN :
          BackupOne(Head(language_files) \o <<LPROJ>>, Head(language_files), copy_ok,
                    "backup_languages")
    /\ language_files' = Tail(language_files)
    /\ UNCHANGED <<args, fs, base_file, base_lang_code, base_strings, base_keys,
                   languages_to_check, scan, missing_by_lang, all_missing, report,
                   fnVars, parseVars>>

\* The end of backup_localization_files and the empty line printed after it.
FinishBackup ==
    /\ pc = "backup_languages"
    /\ language_files = <<>>
    /\ stdout' = print(stdout, args.quiet,
                       (IF backed_up # <<>>
                        THEN <<Msg("Created backups", <<>>, Len(backed_up), {})>> ELSE <<>>)
                       \o <<Msg("", <<>>, 0, {})>>)
    /\ pc' = "check"
    /\ UNCHANGED <<args, fs, base_file, base_lang_code, base_strings, base_keys,
                   languages_to_check, scan, language_files, backed_up, backups,
                   missing_by_lang, all_missing, stderr, report, exit_code,
                   fnVars, parseVars>>

\* "Check each language": the empty results and the sorted languages.
BeginCheck ==
    /\ pc = "check"
    /\ missing_by_lang' = EmptyDict
    /\ all_missing' = {}
    /\ scan' = Sorted(DOMAIN languages_to_check)
    /\ pc' = "check_loop"
    /\ UNCHANGED <<args, fs, base_file, base_lang_code, base_strings, base_keys,
                   languages_to_check, language_files, backed_up, backups, stdout,
                   stderr, report, exit_code, fnVars, parseVars>>

\* A variant of missing_for that takes an absent file for a complete one.
missing_for_absent_complete(tree, lang_file, keys) ==
    IF lang_file = None THEN {}
    ELSE find_missing_keys(keys, DOMAIN parse_strings_file(tree, lang_file[1]))

\* The missing keys of one language: all base keys when its file is not
\* found, else find_missing_keys on the keys parsed from it.
missing_for(tree, lang_file, keys) ==
    IF lang_file = None THEN keys
    ELSE find_missing_keys(keys, DOMAIN parse_strings_file(tree, lang_file[1]))

\* One turn of the loop over the sorted languages.
CheckLanguage ==
    /\ pc = "check_loop"
    /\ scan # <<>>
    /\ LET lang_code == Head(scan)
           lang_file == find_language_file(fs, lang_code)
           missing == missing_for(fs, lang_file, base_keys)
       IN  /\ missing_by_lang' = DictSet(missing_by_lang, lang_code, missing)
           /\ all_missing' = all_missing \cup missing
           /\ stdout' = print(stdout, args.quiet,
                  <<IF lang_file = None THEN Msg("File not found", lang_code, 0, {})
                    ELSE IF missing # {}
                    THEN Msg("missing keys", lang_code, Cardinality(missing), missing)
                    ELSE Msg("Complete", lang_code, 0, {})>>)
    /\ scan' = Tail(scan)
    /\ UNCHANGED <<pc, args, fs, base_file, base_lang_code, base_strings, base_keys,
                   languages_to_check, language_files, backed_up, backups, stderr,
                   report, exit_code, fnVars, parseVars>>

\* The codes of the languages with missing keys, sorted.
Incomplete == Sorted({c \in DOMAIN missing_by_lang : missing_by_lang[c] # {}})

\* "Summary"
Summarize ==
    /\ pc = "check_loop"
    /\ scan = <<>>
    /\ stdout' = print(stdout, args.quiet,
                       <<Msg("Summary", base_lang_code, Cardinality(base_keys), all_missing)>>
                       \o [i \in 1..Len(Incomplete) |->
                              Msg("missing", Incomplete[i],
                                  Cardinality(missing_by_lang[Incomplete[i]]), {})])
    /\ pc' = "report"
    /\ UNCHANGED <<args, fs, base_file, base_lang_code, base_strings, base_keys,
                   languages_to_check, scan, language_files, backed_up, backups,
                   missing_by_lang, all_missing, stderr, report, exit_code,
                   fnVars, parseVars>>

\* write_report(report_file, base_strings, missing_by_lang, base_lang_code):
\* what the file holds after it.
write_report(strs, missing, lang_code) ==
    [base |-> lang_code,
     total_keys |-> Cardinality(DOMAIN strs),
     total_missing |-> Cardinality(UNION {missing[c] : c \in DOMAIN missing}),
     sections |-> [i \in 1..Len(Incomplete) |->
                      [lang |-> Incomplete[i],
                       keys |-> {<<k, strs[k]>> : k \in missing[Incomplete[i]]}]]]

\* base_dir.parent / 'localization_missing_keys_report.txt'
DefaultReport == <<"..", "localization_missing_keys_report.txt">>

\* report_file: the path of --report, or the default path.
report_file == IF args.report # None THEN args.report[1] ELSE DefaultReport

\* What open() and the writes of write_report may do: all succeed, open()
\* raises and no file is touched, or a write raises after open() has
\* truncated the file.
WriteOutcomes == {"ok", "open_failed", "write_failed"}

\* "Generate report".  The call stands in no try block: an OSError leaves
\* main() as an uncaught exception, and the interpreter ends with a traceback
\* and status 1.
GenerateReport ==
    /\ pc = "report"
    /\ IF args.no_report
       THEN /\ pc' = "return"
            /\ UNCHANGED <<report, stdout, stderr, exit_code>>
       ELSE \E outcome \in WriteOutcomes :
              IF outcome = "ok"
              THEN /\ report' = Some([path |-> report_file,
                                      content |-> write_report(base_strings, missing_by_lang,
                                                               base_lang_code)])
                   /\ stdout' = print(stdout, args.quiet,
                                      <<Msg("Report written", <<>>, 0, {})>>)
                   /\ pc' = "return"
                   /\ UNCHANGED <<stderr, exit_code>>
              ELSE /\ report' = IF outcome = "open_failed" THEN report
                                ELSE Some([path |-> report_file, content |-> [truncated |-> TRUE]])
                   /\ stderr' = Append(stderr, Msg("Traceback", <<>>, 0, {}))
                   /\ exit_code' = Some(1)
                   /\ pc' = "crashed"
                   /\ UNCHANGED stdout
    /\ UNCHANGED <<args, fs, base_file, base_lang_code, base_strings, base_keys,
                   languages_to_check, scan, language_files, backed_up, backups,
                   missing_by_lang, all_missing, fnVars, parseVars>>

\* A variant of exit_status that is 0 as soon as one language is complete.
exit_status_any_complete(missing, all) ==
    IF \E c \in DOMAIN missing : missing[c] = {} THEN 0 ELSE 1

\* "Exit code: 0 if complete, 1 if missing keys"
exit_status(missing, all) == IF Cardinality(all) = 0 THEN 0 ELSE 1

\* return 0 if len(all_missing) == 0 else 1
Return ==
    /\ pc = "return"
    /\ exit_code' = Some(exit_status(missing_by_lang, all_missing))
    /\ pc' = "done"
    /\ UNCHANGED <<args, fs, base_file, base_lang_code, base_strings, base_keys,
                   languages_to_check, scan, language_files, backed_up, backups,
                   missing_by_lang, all_missing, stdout, stderr, report,
                   fnVars, parseVars>>

Next ==
    \/ LocateBaseFile \/ ParseBase \/ DetermineLanguages
    \/ CollectLanguageFiles \/ BackupBaseFile \/ BackupLanguageFile \/ FinishBackup
    \/ BeginCheck \/ CheckLanguage \/ Summarize \/ GenerateReport \/ Return

Spec == InitMain /\ [][Next]_vars

(***************************************************************************)
(* Properties of main(), against the keys the files were written with.     *)
(***************************************************************************)
\* The keys a file of the run was written with: in these files a key name
\* stands nowhere but as the key of an entry.
KeysOf(text) ==
    LET names == {text[i] : i \in DOMAIN text}
    IN  {<<k>> : k \in Keys \cap names}
BaseKeysWritten == KeysOf(FileAt(fs, base_file[1])[1])
LangPath(c) == c \o <<LPROJ>>
HasFile(c) == FileAt(fs, LangPath(c)) # None
LangKeysWritten(c) == KeysOf(FileAt(fs, LangPath(c))[1])

\* The base keys the language c lacks; all of them when c has no file.
RefMissing(c) ==
    IF HasFile(c) THEN BaseKeysWritten \ LangKeysWritten(c) ELSE BaseKeysWritten
AllComplete == \A c \in DOMAIN languages_to_check : RefMissing(c) = {}

Ended == pc \in {"usage_error", "done", "crashed"}
AllChecked == DOMAIN missing_by_lang = DOMAIN languages_to_check
AfterCheck == pc \in {"report", "return", "done", "crashed"}

\* C1: when a run of main() has ended, the exit code is 0 exactly when no
\* checked language is missing a base key, and 1 in every other case, usage
\* errors included.
C1_ExitCode ==
    Ended => exit_code = Some(IF pc # "usage_error" /\ AllComplete THEN 0 ELSE 1)

\* C2: for every checked language L whose file exists, the missing keys
\* reported for L are the keys of the base file minus the keys of L's file.
C2_MissingIsDifference ==
    \A c \in DOMAIN missing_by_lang :
        HasFile(c) => missing_by_lang[c] = BaseKeysWritten \ LangKeysWritten(c)

\* A language whose file lacks a base key and holds a key the base file
\* lacks has been checked.
C2_Witness ==
    /\ pc = "done"
    /\ \E c \in DOMAIN missing_by_lang :
          /\ HasFile(c)
          /\ missing_by_lang[c] # {}
          /\ LangKeysWritten(c) \ BaseKeysWritten # {}

UsageMessages ==
    {"Error: Base file not found", "Warning: No keys found",
     "Warning: No language directories found"}

\* C3: a language whose file is absent gets every base key as missing, no
\* usage error is raised for it, and all languages are checked.
C3_AbsentFileAllMissing ==
    /\ \A c \in DOMAIN missing_by_lang :
          ~HasFile(c) => missing_by_lang[c] = BaseKeysWritten /\ BaseKeysWritten # {}
    /\ AfterCheck => AllChecked
    /\ (\E i \in 1..Len(stderr) : stderr[i].msg \in UsageMessages)
          => pc = "usage_error" /\ missing_by_lang = EmptyDict

\* es has no file, fr has one and was checked after es.
C3_Witness ==
    /\ pc = "done"
    /\ DOMAIN missing_by_lang = {<<"es">>, <<"fr">>}
    /\ ~HasFile(<<"es">>) /\ HasFile(<<"fr">>)
    /\ missing_by_lang[<<"es">>] = base_keys
    /\ missing_by_lang[<<"fr">>] # base_keys

SameKeysAsBase(c) == HasFile(c) /\ LangKeysWritten(c) = BaseKeysWritten

\* C4, as stated: when main() returns, a language whose file has the key set
\* of the base file has no missing key and the exit code is 0.
C4_SameKeysExitZero ==
    pc = "done"
        => \A c \in DOMAIN languages_to_check :
              SameKeysAsBase(c) => missing_by_lang[c] = {} /\ exit_code = Some(0)

\* C4, amended: a language whose file has the key set of the base file has
\* no missing key; the exit code is 1 whenever some checked language is
\* missing a key, so it is 0 only if every checked language is complete.
C4_SameKeysNothingMissing ==
    /\ \A c \in DOMAIN missing_by_lang : SameKeysAsBase(c) => missing_by_lang[c] = {}
    /\ Ended /\ pc # "usage_error" /\ ~AllComplete => exit_code = Some(1)
    /\ exit_code = Some(0) => pc = "done" /\ AllComplete

\* es has the keys of the base file, fr lacks one, and main() has returned 1.
C4_Witness ==
    /\ pc = "done"
    /\ DOMAIN missing_by_lang = {<<"es">>, <<"fr">>}
    /\ SameKeysAsBase(<<"es">>) /\ missing_by_lang[<<"es">>] = {}
    /\ missing_by_lang[<<"fr">>] # {}
    /\ exit_code = Some(1)

Warned == {stderr[i].lang : i \in {j \in 1..Len(stderr) : stderr[j].msg = "Warning: Failed to backup"}}
Saved == {backed_up[i] : i \in 1..Len(backed_up)}
BackupSource(c) == IF c = base_lang_code THEN base_file[1] ELSE LangPath(c)
BackupDone == pc \in {"check", "check_loop"} \/ AfterCheck

\* C10: with --backup, a copy that fails is logged as a warning and the run
\* goes on: every other file is still backed up, every language is still
\* checked, and the missing keys and the exit code are those the files and
\* the languages alone determine, as in a run without --backup.
C10_BackupFailureContinues ==
    /\ args.backup /\ BackupDone
          => /\ Warned \cup Saved
                  = {base_lang_code} \cup {c \in DOMAIN languages_to_check : HasFile(c)}
             /\ Warned \cap Saved = {}
             /\ \A c \in Saved : \E b \in backups :
                   b.lang = c /\ b.content = FileAt(fs, BackupSource(c))[1]
    /\ pc = "crashed" => AllChecked
    /\ AfterCheck => \A c \in DOMAIN languages_to_check : missing_by_lang[c] = RefMissing(c)
    /\ pc = "done" => exit_code = Some(IF AllComplete THEN 0 ELSE 1)

\* The copy of the base file failed, a later copy succeeded, and main() has
\* returned.
C10_Witness ==
    /\ pc = "done"
    /\ args.backup
    /\ base_lang_code \in Warned
    /\ Saved # {}
    /\ AllChecked

\* The paths of the resource files of the run: the base file and the file
\* of every language to check that has one.
ResourcePaths ==
    (IF base_file # None THEN {base_file[1]} ELSE {})
    \cup {LangPath(c) : c \in {d \in DOMAIN languages_to_check : HasFile(d)}}

\* The paths the run has written so far: the report file, and the copies in
\* the backup directory, which lies in the base directory and is no .lproj
\* directory.
BackupPath(b) == <<".localization_backups", b.lang>>
WrittenPaths ==
    (IF report # None THEN {report[1].path} ELSE {}) \cup {BackupPath(b) : b \in backups}

\* C11: no run changes the content of the base file or of a language file:
\* no path the run writes is the path of one of them.
C11_ResourcesUnchanged == WrittenPaths \cap ResourcePaths = {}

\* Without --report no resource file is written.
ResourcesUnchangedByDefault == args.report = None => WrittenPaths \cap ResourcePaths = {}

\* C12: a failure to write the report is not fatal: no run ends with an
\* uncaught exception, and every run that got to the report ends with the
\* exit code the missing keys determine.
C12_ReportFailureNotFatal ==
    /\ pc # "crashed"
    /\ Ended /\ pc # "usage_error" => exit_code = Some(IF AllComplete THEN 0 ELSE 1)

(***************************************************************************)
(* main() on files whose keys stand in any order.                          *)
(***************************************************************************)
\* The orders the keys ks may stand in, and the file that lists them so.
KeyOrdersOf(ks) ==
    {o \in [1..Cardinality(ks) -> ks] : \A i, j \in 1..Cardinality(ks) : o[i] = o[j] => i = j}
TextOf(o) == Join([i \in 1..Len(o) |-> Entry(o[i], <<"v">>)], <<NL>>)
OrderedTexts(sets) == UNION {{TextOf(o) : o \in KeyOrdersOf(ks)} : ks \in sets}

OrderLangChoices(code) ==
    {{}} \cup {{LprojDir(code, Some(t))} : t \in OrderedTexts(SUBSET Keys)}
OrderTrees ==
    {[dir_exists |-> TRUE,
      entries |-> {LprojDir("en", Some(b))} \cup UNION {l[c] : c \in Langs}] :
        b \in OrderedTexts({Keys}),
        l \in {f \in [Langs -> UNION {OrderLangChoices(c) : c \in Langs}] :
                  \A c \in Langs : f[c] \in OrderLangChoices(c)}}
OrderArgs ==
    {a \in MainArgs : a.base_file = None /\ a.report = None /\ ~a.quiet}

InitOrder ==
    /\ pc = "start"
    /\ args \in OrderArgs
    /\ fs \in OrderTrees
    /\ base_file = None /\ base_lang_code = None
    /\ base_strings = EmptyDict /\ base_keys = {}
    /\ languages_to_check = EmptyDict
    /\ scan = <<>> /\ language_files = <<>> /\ backed_up = <<>> /\ backups = {}
    /\ missing_by_lang = EmptyDict /\ all_missing = {}
    /\ stdout = <<>> /\ stderr = <<>> /\ report = None /\ exit_code = None
    /\ FnIdle /\ ParseIdle

SpecOrder == InitOrder /\ [][Next]_vars

\* The languages a run checks, from the command line and the set of
\* directories alone.
RefLanguages ==
    IF args.languages # None THEN {args.languages[1][i] : i \in 1..Len(args.languages[1])}
    ELSE {<<c>> : c \in {d \in Langs : \E e \in fs.entries : e.name = <<d, LPROJ>>}}

\* C13: the result is a function of the key sets of the files and of the set
\* of language directories: whatever order the scan returns the directories
\* in and whatever order the keys stand in, the languages checked, the
\* missing set of each and the exit code are the same.
C13_OrderIndependent ==
    /\ pc \in {"backup", "backup_base", "backup_languages"} \/ BackupDone
          => DOMAIN languages_to_check = RefLanguages
    /\ AfterCheck => AllChecked /\ \A c \in RefLanguages : missing_by_lang[c] = RefMissing(c)
    /\ Ended => exit_code = Some(IF AllComplete /\ pc = "done" THEN 0 ELSE 1)

\* The base file lists A.c before A.b and the file of es A.b before A.c, the
\* scan returned fr before es, and main() has returned 0.
C13_Witness ==
    /\ pc = "done"
    /\ FileAt(fs, <<"en", LPROJ>>) = Some(TextOf(<<"A.c", "A.b">>))
    /\ FileAt(fs, <<"es", LPROJ>>) = Some(TextOf(<<"A.b", "A.c">>))
    /\ args.languages = None
    /\ backed_up = << <<"en">>, <<"fr">>, <<"es">> >>
    /\ missing_by_lang[<<"es">>] = {}
    /\ exit_code = Some(0)

(***************************************************************************)
(* The order of the phases of main().                                      *)
(***************************************************************************)
PhaseRank(p) ==
    CASE p = "start" -> 0 [] p = "parse_base" -> 1 [] p = "languages" -> 2
      [] p = "backup" -> 3 [] p = "backup_base" -> 4 [] p = "backup_languages" -> 5
      [] p = "check" -> 6 [] p = "check_loop" -> 7 [] p = "report" -> 8
      [] p = "return" -> 9 [] OTHER -> 10
InBackup == pc \in {"backup", "backup_base", "backup_languages"}
NothingAnalysed == missing_by_lang = EmptyDict /\ all_missing = {}

PhaseState ==
    \* the base file is parsed first
    /\ pc \in {"start", "parse_base"}
          => languages_to_check = EmptyDict /\ backups = {} /\ backed_up = <<>>
             /\ NothingAnalysed /\ report = None
    \* then the languages are determined; none is looked at when the base
    \* file gave no key
    /\ languages_to_check # EmptyDict => base_keys # {}
    /\ base_keys = {}
          => languages_to_check = EmptyDict /\ backups = {} /\ NothingAnalysed
             /\ report = None
    \* the backup is made before any language is analysed
    /\ InBackup => NothingAnalysed /\ args.backup
    /\ backups # {} \/ Warned # {} => args.backup
    /\ missing_by_lang # EmptyDict /\ args.backup
          => Warned \cup Saved
                = {base_lang_code} \cup {c \in DOMAIN languages_to_check : HasFile(c)}
    \* the report is written after every language has its entry
    /\ pc = "report" \/ report # None
          => AllChecked /\ DOMAIN languages_to_check # {}

PhaseStep ==
    /\ PhaseRank(pc') >= PhaseRank(pc)
    /\ backups' # backups \/ backed_up' # backed_up => NothingAnalysed /\ missing_by_lang' = EmptyDict
    /\ missing_by_lang' # missing_by_lang
          => base_keys # {} /\ report = None /\ report' = None
             /\ DOMAIN missing_by_lang' \subseteq DOMAIN languages_to_check
    /\ report' # report => AllChecked /\ missing_by_lang' = missing_by_lang
    /\ base_strings' # base_strings => pc = "parse_base"
    /\ languages_to_check' # languages_to_check => pc = "languages"

\* C14: every run goes through its phases in one order: the base file is
\* parsed first, then the languages are determined, then the backup, if
\* requested, is made before any language is analysed, then every language
\* is compared, and the report is written only after every language to check
\* has an entry in the missing map; no language file is parsed when the base
\* key set is empty.
C14_PhaseOrder == [](PhaseState) /\ [][PhaseStep]_vars

\* A run with --backup that saved a file, checked two languages, wrote the
\* report and returned.
C14_Witness ==
    /\ pc = "done"
    /\ args.backup /\ Saved # {}
    /\ Cardinality(DOMAIN missing_by_lang) = 2 /\ AllChecked
    /\ report # None

(***************************************************************************)
(* Quiet mode.                                                             *)
(***************************************************************************)
Sections(r) == {r.sections[i] : i \in 1..Len(r.sections)}

\* The report the missing sets ref of the languages determine.
IsRefReport(r, ref) ==
    LET incomplete == {c \in DOMAIN ref : ref[c] # {}}
    IN  /\ r.base = base_lang_code
        /\ r.total_keys = Cardinality(BaseKeysWritten)
        /\ r.total_missing = Cardinality(UNION {ref[c] : c \in DOMAIN ref})
        /\ Len(r.sections) = Cardinality(incomplete)
        /\ Sections(r) = {[lang |-> c, keys |-> {<<k, <<"v">>>> : k \in ref[c]}] :
                             c \in incomplete}

Listing == {"File not found", "missing keys", "Complete", "Summary", "missing"}
Printed(lang) == \E i \in 1..Len(stdout) : stdout[i].lang = lang /\ stdout[i].msg \in Listing

\* C15: --quiet only suppresses standard output: the missing sets, the
\* report and the exit code are those the files and the other options
\* determine, with --quiet or without it, and a quiet run prints nothing to
\* standard output, while a run without --quiet prints the listing and the
\* summary.
C15_QuietOnlySuppressesOutput ==
    /\ args.quiet => stdout = <<>>
    /\ pc \in {"return", "done"}
          => LET ref == [c \in DOMAIN languages_to_check |-> RefMissing(c)]
             IN  /\ missing_by_lang = ref
                 /\ ~args.quiet => Printed(base_lang_code) /\ \A c \in DOMAIN ref : Printed(c)
                 /\ IF args.no_report THEN report = None
                    ELSE /\ report # None
                         /\ report[1].path = report_file
                         /\ IsRefReport(report[1].content, ref)
                 /\ pc = "done"
                       => exit_code = Some(IF \A c \in DOMAIN ref : ref[c] = {} THEN 0 ELSE 1)

\* A quiet run that found a missing key, wrote the report and returned 1.
C15_Witness ==
    /\ pc = "done"
    /\ args.quiet /\ stdout = <<>>
    /\ report # None
    /\ \E c \in DOMAIN missing_by_lang : missing_by_lang[c] # {}
    /\ exit_code = Some(1)

(***************************************************************************)
(* migrate_platform_list_row.py.  Swift text is a sequence of tokens:      *)
(* "plr" is .platformListRow, "lb" and "rb" the braces, "lp" and "rp" the  *)
(* parentheses, "sc" the semicolon, "cm" the comma, "Text" the word Text,  *)
(* "label:" and "title:" the argument labels; other tokens are names.      *)
(***************************************************************************)
\* The first position at or after i that holds a token of toks, or 0.
RECURSIVE FirstOf(_, _, _)
FirstOf(s, i, toks) ==
    IF i > Len(s) THEN 0 ELSE IF s[i] \in toks THEN i ELSE FirstOf(s, i + 1, toks)

Tok(s, i) == IF i >= 1 /\ i <= Len(s) THEN s[i] ELSE "end"

\* The position after the optional white space, semicolon, white space.
AfterSeparator(s, i) ==
    LET a == SkipSpace(s, i)
    IN  SkipSpace(s, IF Tok(s, a) = "sc" THEN a + 1 ELSE a)

\* The start of the white space that ends just before position e, not
\* before position b.
RECURSIVE SpaceStart(_, _, _)
SpaceStart(s, b, e) == IF e > b /\ IsSpace(s[e - 1]) THEN SpaceStart(s, b, e - 1) ELSE e

NoRow == [end |-> 0, x |-> <<>>, rest |-> <<>>]

\* The beginning the patterns 1 and 2 share, at position p: .platformListRow,
\* white space, the brace, white space, Text, the parenthesis, one or more
\* characters that are no closing parenthesis, the closing parenthesis.
\* The result is the position of that closing parenthesis, or 0.
RowHead(s, p) ==
    LET b == SkipSpace(s, p + 1)
        t == SkipSpace(s, b + 1)
        k == FirstOf(s, t + 2, {"rp"})
    IN  IF Tok(s, p) = "plr" /\ Tok(s, b) = "lb" /\ Tok(s, t) = "Text"
           /\ Tok(s, t + 1) = "lp" /\ k > t + 2
        THEN [x_start |-> t + 2, x_end |-> k] ELSE [x_start |-> 0, x_end |-> 0]

\* pattern2 at position p, with re.DOTALL: the head, then white space, an
\* optional semicolon, white space, as few characters as possible, white
\* space and the closing brace.
Pattern2At(s, p) ==
    LET h == RowHead(s, p)
        r == AfterSeparator(s, h.x_end + 1)
        e == FirstOf(s, r, {"rb"})
    IN  IF h.x_end # 0 /\ e # 0
        THEN [end |-> e, x |-> SubSeq(s, h.x_start, h.x_end - 1),
              rest |-> SubSeq(s, r, SpaceStart(s, r, e) - 1)]
        ELSE NoRow

\* pattern1 at position p: the head, white space, the closing brace.
Pattern1At(s, p) ==
    LET h == RowHead(s, p)
        e == SkipSpace(s, h.x_end + 1)
    IN  IF h.x_end # 0 /\ Tok(s, e) = "rb"
        THEN [end |-> e, x |-> SubSeq(s, h.x_start, h.x_end - 1), rest |-> <<>>]
        ELSE NoRow

\* pattern3 at position p: .platformListRow, white space, (label: , white
\* space, one or more characters that are no comma and no closing
\* parenthesis, the closing parenthesis, white space, the brace, white
\* space, Text, the parenthesis, its content, the closing parenthesis.  x is
\* group 1, the label.
Pattern3At(s, p) ==
    LET a == SkipSpace(s, p + 1)
        k == FirstOf(s, a + 2, {"cm", "rp"})
        b == SkipSpace(s, k + 1)
        t == SkipSpace(s, b + 1)
        e == FirstOf(s, t + 2, {"rp"})
    IN  IF Tok(s, p) = "plr" /\ Tok(s, a) = "lp" /\ Tok(s, a + 1) = "label:"
           /\ k > a + 2 /\ Tok(s, k) = "rp" /\ Tok(s, b) = "lb"
           /\ Tok(s, t) = "Text" /\ Tok(s, t + 1) = "lp" /\ e > t + 2
        THEN [end |-> e, x |-> SubSeq(s, a + 2, k - 1), rest |-> <<>>]
        ELSE NoRow

\* extract_text_string(match): group 1, stripped.
extract_text_string(m) == Strip(m.x)

\* re.sub(r'Text\([^)]+\)\s*;?\s*', '', trailing), from position p.
RECURSIVE RemoveText(_, _)
RemoveText(t, p) ==
    IF p > Len(t) THEN <<>>
    ELSE LET k == FirstOf(t, p + 2, {"rp"})
         IN  IF t[p] = "Text" /\ Tok(t, p + 1) = "lp" /\ k > p + 2
             THEN RemoveText(t, AfterSeparator(t, k + 1))
             ELSE <<t[p]>> \o RemoveText(t, p + 1)

\* f'.platformListRow(title: {text_content}) {{ {trailing} }}', and the same
\* with empty braces.
NewRow(title, trailing) ==
    <<"plr", "lp", "title:", "sp">> \o title \o <<"rp", "sp", "lb", "sp">>
    \o (IF trailing = <<>> THEN <<>> ELSE trailing \o <<"sp">>) \o <<"rb">>

replace1(m) == NewRow(extract_text_string(m), <<>>)

replace2(m) ==
    LET trailing == Strip(m.rest)
    IN  IF trailing # <<>>
        THEN NewRow(extract_text_string(m), Strip(RemoveText(trailing, 1)))
        ELSE NewRow(extract_text_string(m), <<>>)

\* replace3: the title is the text content unless that starts with a quote,
\* and the text content is taken from group 1, as the label is.
replace3(m) ==
    LET label == Strip(m.x)
        text_content == extract_text_string(m)
        title == IF ~StartsWith(text_content, Q) THEN text_content ELSE label
    IN  <<"plr", "lp", "title:", "sp">> \o title \o <<"rp", "sp", "lb">>

\* re.sub(pattern, replace, content): the matches found left to right, not
\* overlapping, each replaced.
RECURSIVE Sub2(_, _)
Sub2(s, p) ==
    IF p > Len(s) THEN <<>>
    ELSE LET m == Pattern2At(s, p)
         IN  IF m.end # 0 THEN replace2(m) \o Sub2(s, m.end + 1)
             ELSE <<s[p]>> \o Sub2(s, p + 1)
RECURSIVE Sub1(_, _)
Sub1(s, p) ==
    IF p > Len(s) THEN <<>>
    ELSE LET m == Pattern1At(s, p)
         IN  IF m.end # 0 THEN replace1(m) \o Sub1(s, m.end + 1)
             ELSE <<s[p]>> \o Sub1(s, p + 1)
RECURSIVE Sub3(_, _)
Sub3(s, p) ==
    IF p > Len(s) THEN <<>>
    ELSE LET m == Pattern3At(s, p)
         IN  IF m.end # 0 THEN replace3(m) \o Sub3(s, m.end + 1)
             ELSE <<s[p]>> \o Sub3(s, p + 1)

\* migrate_platform_list_row(content): pattern 2, then 1, then 3.
migrate_platform_list_row(content) == Sub3(Sub1(Sub2(content, 1), 1), 1)
\* The old-API calls the migration is run on: text before the call, white
\* space before the brace, the argument X of the first Text, and the
\* statements after it with the separator between them.
RowPrefixes == {<<>>, <<"Text", "lp", "z", "rp", "nl", "sp">>}
RowSpaces == {<<>>, <<"sp">>}
RowTitles == {<<"a">>, <<Q, "a", Q>>, <<"a", "lp", "rp">>}
RowSeparators == {<<"sc", "sp">>, <<"nl", "sp">>}
RowStatements == {<<"S", "lp", "rp">>, <<"I", "lp", "a", "rp">>, <<"Text", "lp", "z", "rp">>}
RowRests == SeqsUpTo(RowStatements, MaxStatements)

OldRow(ws, x, sep, rest) ==
    <<"plr">> \o ws \o <<"lb", "sp", "Text", "lp">> \o x \o <<"rp">>
    \o (IF rest = <<>> THEN <<>> ELSE sep \o Join(rest, sep)) \o <<"sp", "rb">>
LabelRow(ws, x) ==
    <<"plr">> \o ws \o <<"lp", "label:", "sp", Q, "z", Q, "rp", "sp", "lb", "sp", "Text", "lp">>
    \o x \o <<"rp", "sp", "rb">>

RowInputs ==
    {[form |-> "closure", prefix |-> pre, x |-> x, sep |-> sep, rest |-> rest,
      text |-> pre \o OldRow(ws, x, sep, rest)] :
        pre \in RowPrefixes, ws \in RowSpaces, x \in RowTitles, sep \in RowSeparators,
        rest \in RowRests}
    \cup {[form |-> "label", prefix |-> pre, x |-> x, sep |-> <<>>, rest |-> <<>>,
           text |-> pre \o LabelRow(ws, x)] :
             pre \in RowPrefixes, ws \in RowSpaces, x \in RowTitles}

InitMigrateRow ==
    /\ pc = "start"
    /\ fn_in \in RowInputs
    /\ fn_out = None
    /\ MainIdle /\ ParseIdle

\* content = migrate_platform_list_row(content)
MigrateRow ==
    /\ pc = "start"
    /\ fn_out' = migrate_platform_list_row(fn_in.text)
    /\ pc' = "migrated"
    /\ UNCHANGED <<fn_in, mainVars, parseVars>>

NextMigrateRow == MigrateRow
SpecMigrateRow == InitMigrateRow /\ [][NextMigrateRow]_vars

\* .platformListRow(title: X) { <rest> }, after the unchanged prefix.
ExpectedRow(in) ==
    in.prefix \o <<"plr", "lp", "title:", "sp">> \o in.x \o <<"rp", "sp", "lb", "sp">>
    \o (IF in.rest = <<>> THEN <<>> ELSE Join(in.rest, in.sep) \o <<"sp">>) \o <<"rb">>

\* C16: every call .platformListRow { Text(X) <rest> } becomes
\* .platformListRow(title: X) { <rest> }, with X verbatim, <rest> the
\* statements after the first Text unchanged (empty braces when there are
\* none), and the text before the call unchanged.
C16_RowMigrated ==
    pc = "migrated" /\ fn_in.form = "closure" => fn_out = ExpectedRow(fn_in)

\* The calls on which the rewriting is as described: X holds no parenthesis
\* and no statement after the first Text is a Text call.
PlainRow(in) ==
    /\ in.form = "closure"
    /\ ~Contains(in.x, "rp")
    /\ \A i \in 1..Len(in.rest) : in.rest[i][1] # "Text"
RowMigratedOnPlainCalls ==
    pc = "migrated" /\ PlainRow(fn_in) => fn_out = ExpectedRow(fn_in)

(***************************************************************************)
(* migrate_strings_to_xcstrings.py: create_xcstrings_file.                 *)
(***************************************************************************)
\* parse_strings_file of the migration as one function: the loop over the
\* lines from line i on, with the dictionaries and the comment state so far.
RECURSIVE MigrateParseFrom(_, _, _, _, _, _)
MigrateParseFrom(ls, i, strs, cmts, cur, buf) ==
    IF i > Len(ls) THEN [strings |-> strs, comments |-> cmts]
    ELSE LET c == CollectComment(ls[i], cur, buf)
             match == Search(ls[i], 1)
             st == StoreComment(cmts, c.current_comment, match.key)
         IN  IF match.ok
             THEN MigrateParseFrom(ls, i + 1, DictSet(strs, match.key, unescape(match.value)),
                                   st.comments, st.current_comment, c.comment_buffer)
             ELSE MigrateParseFrom(ls, i + 1, strs, cmts, c.current_comment, c.comment_buffer)
migrate_parse_strings_file(content) ==
    MigrateParseFrom(Split(content), 1, EmptyDict, EmptyDict, None, <<>>)

\* The lines of the files that are migrated, and the files.
XcLines ==
    { <<"co", "sp", "c1", "sp", "cc">>, Entry("A.b", <<"x">>),
      Entry("A.c", <<"x", B, Q, "y", B, "n">>) }
XcContents == {Join(ls, <<NL>>) : ls \in SeqsUpTo(XcLines, MaxLines)}
XcLanguages == {{<<"en">>}, {<<"es">>}, {<<"en">>, <<"es">>}}

\* languages: the discovered codes with the content of their strings files;
\* --source-language is en.
InitXcstrings ==
    /\ pc = "start"
    /\ \E codes \in XcLanguages :
          fn_in \in [languages : [codes -> XcContents], source_language : {<<"en">>}]
    /\ fn_out = None
    /\ strings = EmptyDict /\ comments = EmptyDict
    /\ lines = None /\ line_no = 0 /\ current_comment = None /\ comment_buffer = None
    /\ MainIdle

\* "Verify source language exists"; current_comment holds the source
\* language handed to create_xcstrings_file.
VerifySourceLanguage ==
    /\ pc = "start"
    /\ current_comment' =
          IF fn_in.source_language \notin DOMAIN fn_in.languages
          THEN Sorted(DOMAIN fn_in.languages)[1] ELSE fn_in.source_language
    /\ pc' = "verified"
    /\ UNCHANGED <<mainVars, fnVars, lines, line_no, strings, comments, comment_buffer>>

\* "Read all language files": all_strings and all_comments.
ReadLanguageFiles ==
    /\ pc = "verified"
    /\ strings' = [l \in DOMAIN fn_in.languages |->
                      migrate_parse_strings_file(fn_in.languages[l]).strings]
    /\ comments' = [l \in DOMAIN fn_in.languages |->
                       migrate_parse_strings_file(fn_in.languages[l]).comments]
    /\ pc' = "read"
    /\ UNCHANGED <<mainVars, fnVars, lines, line_no, current_comment, comment_buffer>>

\* The entry of one key: the comment of the source language, if it has a
\* non-empty one for the key, and the localizations of the languages that
\* hold the key.
key_entry(key, all_strings, all_comments, source_language) ==
    [comment |->
        IF source_language \in DOMAIN all_comments
           /\ key \in DOMAIN all_comments[source_language]
           /\ Strip(all_comments[source_language][key]) # <<>>
        THEN Some(Strip(all_comments[source_language][key])) ELSE None,
     localizations |->
        [l \in {c \in DOMAIN all_strings : key \in DOMAIN all_strings[c]} |->
            [state |-> "translated", value |-> all_strings[l][key]]]]

\* create_xcstrings_file(languages, source_language), after the files are
\* read: the structure it returns.
create_xcstrings_file(all_strings, all_comments, source_language) ==
    LET all_keys == UNION {DOMAIN all_strings[l] : l \in DOMAIN all_strings}
    IN  [version |-> "1.0",
         sourceLanguage |-> source_language,
         strings |-> [k \in {key \in all_keys :
                               DOMAIN key_entry(key, all_strings, all_comments,
                                                source_language).localizations # {}} |->
                         key_entry(k, all_strings, all_comments, source_language)]]

\* "Build xcstrings structure"
BuildXcstrings ==
    /\ pc = "read"
    /\ fn_out' = create_xcstrings_file(strings, comments, current_comment)
    /\ pc' = "built"
    /\ UNCHANGED <<mainVars, fn_in, parseVars>>

NextXcstrings == VerifySourceLanguage \/ ReadLanguageFiles \/ BuildXcstrings
SpecXcstrings == InitXcstrings /\ [][NextXcstrings]_vars

\* The values and the comments of a file, read off its lines: the value of
\* the last line of each key, and the comment of the last line of the key
\* that has one.
XcValue(content, k) ==
    unescape(EntryValue(Split(content)[LastPosition(Split(content), k)]))
XcCommented(content, k) ==
    {i \in EntryPositions(Split(content), k) : Truthy(CommentFor(Split(content), i))}
XcComment(content, k) ==
    CommentFor(Split(content),
               CHOOSE i \in XcCommented(content, k) : \A j \in XcCommented(content, k) : j <= i)[1]

TranslationsKept ==
    /\ \A l \in DOMAIN fn_in.languages :
          \A k \in WrittenKeys(Split(fn_in.languages[l])) :
              /\ k \in DOMAIN fn_out.strings
              /\ l \in DOMAIN fn_out.strings[k].localizations
              /\ fn_out.strings[k].localizations[l].value = XcValue(fn_in.languages[l], k)
    /\ \A k \in DOMAIN fn_out.strings :
          \A l \in DOMAIN fn_out.strings[k].localizations :
              l \in DOMAIN fn_in.languages /\ k \in WrittenKeys(Split(fn_in.languages[l]))

\* C17: the structure holds, for every language l and key k of l's file, the
\* value of k in that file as the localization l of k, no other key or
\* localization, and every comment a file attaches to a key in the entry of
\* that key.
C17_XcstringsPreserves ==
    pc = "built"
        => /\ TranslationsKept
           /\ \A l \in DOMAIN fn_in.languages :
                 \A k \in WrittenKeys(Split(fn_in.languages[l])) :
                     XcCommented(fn_in.languages[l], k) # {}
                         => fn_out.strings[k].comment = Some(XcComment(fn_in.languages[l], k))

\* The translations are all kept, and so are the comments of the source
\* language.
XcstringsKeepsSourceComments ==
    pc = "built"
        => /\ TranslationsKept
           /\ \A k \in WrittenKeys(Split(fn_in.languages[fn_out.sourceLanguage])) :
                 XcCommented(fn_in.languages[fn_out.sourceLanguage], k) # {}
                     => fn_out.strings[k].comment
                           = Some(XcComment(fn_in.languages[fn_out.sourceLanguage], k))

(***************************************************************************)
(* analyze_test_performance.py.  The output of a command is a sequence of  *)
(* lines, each of one kind:                                                *)
(*   plain             Test Suite X passed                                 *)
(*   build_complete    Build complete!                                     *)
(*   error             foo.swift:1: error: cannot find x in scope          *)
(*   warning           foo.swift:1: warning: error: label unused           *)
(*   deprecated_error  foo.swift:1: error: x is deprecated                 *)
(*   build_failed      BUILD FAILED                                        *)
(*   fatal             Fatal error: unexpectedly found nil                 *)
(***************************************************************************)
HasWarning(line) == line = "warning"
HasErrorColon(line) == line \in {"error", "warning", "deprecated_error", "fatal"}
HasDeprecated(line) == line = "deprecated_error"
MatchesErrorPattern(line) == line \in {"error", "build_failed"}
MatchesFatalPattern(line) == line = "fatal"

\* The loop of has_compilation_errors over the lines from i on.
RECURSIVE HasRealError(_, _)
HasRealError(output, i) ==
    IF i > Len(output) THEN FALSE
    ELSE IF HasWarning(output[i]) THEN HasRealError(output, i + 1)
    ELSE IF HasErrorColon(output[i]) /\ ~HasDeprecated(output[i]) THEN TRUE
    ELSE IF MatchesErrorPattern(output[i]) THEN TRUE
    ELSE HasRealError(output, i + 1)

\* has_compilation_errors(output)
has_compilation_errors(output) ==
    IF Contains(output, "build_complete") THEN FALSE ELSE HasRealError(output, 1)

\* has_fatal_errors(output)
has_fatal_errors(output) == \E i \in 1..Len(output) : MatchesFatalPattern(output[i])

\* The outputs a command may give.
Outputs ==
    { <<>>, <<"plain">>, <<"error">>, <<"warning">>, <<"deprecated_error">>,
      <<"build_failed">>, <<"fatal">>, <<"error", "build_complete">>,
      <<"warning", "error">>, <<"fatal", "build_complete">> }

\* The times a suite may take, in seconds: under one second, over it, and the
\* timeout.
FAST == 0
SLOW == 2
TIMEOUT == 30

\* run_test_suite(suite_name): the result for a process that ended with
\* returncode and output after execution_time.
run_test_suite(suite_name, returncode, output, execution_time) ==
    LET compilation_error == has_compilation_errors(output)
        fatal_error == has_fatal_errors(output)
    IN  [suite |-> suite_name, time |-> execution_time,
         passed |-> (returncode = 0 /\ ~compilation_error /\ ~fatal_error),
         timeout |-> FALSE, compilation_error |-> compilation_error,
         fatal_error |-> fatal_error, returncode |-> Some(returncode), output |-> output]

\* run_test_suite when subprocess.run raises TimeoutExpired.
timed_out(suite_name) ==
    [suite |-> suite_name, time |-> TIMEOUT, passed |-> FALSE, timeout |-> TRUE,
     compilation_error |-> FALSE, fatal_error |-> FALSE, returncode |-> None,
     output |-> <<"timed out">>]

SuiteNames == <<"Tests.A", "Tests.B", "Tests.C", "Tests.D">>

\* The lists main() keeps.
NoResults ==
    [results |-> <<>>, slow_suites |-> <<>>, timeout_suites |-> <<>>,
     compilation_error_suites |-> <<>>, fatal_error_suites |-> <<>>, failed_suites |-> <<>>]

\* The frame of the analyzer in the variables of the checker.
analyzerFrame == <<args, fs, base_file, base_lang_code, base_strings, base_keys,
                   languages_to_check, scan, language_files, backed_up, backups,
                   missing_by_lang, all_missing, stdout, stderr, report>>

InitAnalyze ==
    /\ pc = "start"
    /\ fn_in = None /\ fn_out = NoResults
    /\ MainIdle /\ ParseIdle

\* suites = get_test_suites() and the two early returns of main(); fn_in
\* holds suites.  A second listing is run when no suite was found.
GetTestSuites ==
    /\ pc = "start"
    /\ \E returncode \in {0, 1}, output \in Outputs, n \in 0..MaxSuites, again \in Outputs :
          IF has_compilation_errors(output) \/ has_fatal_errors(output) \/ returncode # 0
          THEN pc' = "done" /\ exit_code' = Some(1) /\ fn_in' = None
          ELSE IF n = 0 /\ (has_compilation_errors(again) \/ has_fatal_errors(again))
          THEN pc' = "done" /\ exit_code' = Some(1) /\ fn_in' = Some(<<>>)
          ELSE pc' = "loop" /\ fn_in' = Some(SubSeq(SuiteNames, 1, n)) /\ UNCHANGED exit_code
    /\ UNCHANGED <<fn_out, analyzerFrame, parseVars>>

\* The branch of the loop body that files the result in one list.
classify(st, result) ==
    IF result.timeout
    THEN [st EXCEPT !.timeout_suites = Append(@, result)]
    ELSE IF result.fatal_error
    THEN [st EXCEPT !.fatal_error_suites = Append(@, result)]
    ELSE IF result.compilation_error
    THEN [st EXCEPT !.compilation_error_suites = Append(@, result)]
    ELSE IF ~result.passed
    THEN [st EXCEPT !.failed_suites = Append(@, result)]
    ELSE IF result.time > 1
    THEN [st EXCEPT !.slow_suites = Append(@, result)]
    ELSE st

\* One turn of the loop over the suites: run the suite, file the result.
\* The log file is rewritten after it; a write that raises ends main() with
\* an uncaught exception.
RunSuite ==
    /\ pc = "loop"
    /\ Len(fn_out.results) < Len(fn_in[1])
    /\ LET suite == fn_in[1][Len(fn_out.results) + 1]
       IN  \E result \in {timed_out(suite)}
                  \cup {run_test_suite(suite, rc, out, t) :
                           rc \in {0, 1}, out \in Outputs, t \in {FAST, SLOW}},
              log_ok \in BOOLEAN :
              /\ fn_out' = classify([fn_out EXCEPT !.results = Append(@, result)], result)
              /\ IF log_ok THEN UNCHANGED <<pc, exit_code>>
                 ELSE pc' = "crashed" /\ exit_code' = Some(1)
    /\ UNCHANGED <<fn_in, analyzerFrame, parseVars>>

\* A variant of has_failures that does not count the timeouts.
has_failures_without_timeouts(st) ==
    \/ Len(st.fatal_error_suites) > 0
    \/ Len(st.compilation_error_suites) > 0
    \/ Len(st.failed_suites) > 0

\* has_failures
has_failures(st) ==
    \/ Len(st.fatal_error_suites) > 0
    \/ Len(st.compilation_error_suites) > 0
    \/ Len(st.failed_suites) > 0
    \/ Len(st.timeout_suites) > 0

\* The summary and return 0 if not has_failures else 1.
FinishAnalysis ==
    /\ pc = "loop"
    /\ Len(fn_out.results) = Len(fn_in[1])
    /\ exit_code' = Some(IF ~has_failures(fn_out) THEN 0 ELSE 1)
    /\ pc' = "done"
    /\ UNCHANGED <<fnVars, analyzerFrame, parseVars>>

NextAnalyze == GetTestSuites \/ RunSuite \/ FinishAnalysis
SpecAnalyze == InitAnalyze /\ [][NextAnalyze]_vars

Results == {fn_out.results[i] : i \in 1..Len(fn_out.results)}

\* C18: main() returns 0 only if every suite it ran is marked passed; a
\* suite is marked passed only if its return code is 0, no compilation error
\* and no fatal error is detected in its output and it did not time out;
\* and suites that passed, slow or not, give the exit code 0.
C18_NoFalseSuccess ==
    /\ exit_code = Some(0)
          => pc = "done" /\ fn_in # None /\ Len(fn_out.results) = Len(fn_in[1])
             /\ \A r \in Results : r.passed
    /\ \A r \in Results :
          r.passed => /\ r.returncode = Some(0)
                      /\ ~r.timeout
                      /\ ~r.compilation_error /\ ~has_compilation_errors(r.output)
                      /\ ~r.fatal_error /\ ~has_fatal_errors(r.output)
    /\ pc = "done" /\ exit_code = Some(1) /\ fn_out.results # <<>>
          => \E r \in Results : ~r.passed

\* Two suites passed, one of them slow, and main() returned 0.
C18_Witness ==
    /\ pc = "done"
    /\ exit_code = Some(0)
    /\ Len(fn_out.results) = 2
    /\ Len(fn_out.slow_suites) = 1

(***************************************************************************)
(* The async-removal pass of fix_file, the same loop in                    *)
(* fix_mainactor_wrappers.py and in fix_mainactor_timeouts.py.  A Swift    *)
(* file is the sequence of its lines, content.split('\n'); fn_in holds the *)
(* lines, line_no the index i, fn_out the list new_lines.                  *)
(***************************************************************************)
\* The lines the files are made of.
SigAsync == "    func testA() async {"
SigPlain == "    func testA() {"
Stmt == "        let x = 1"
AwaitStmt == "        await load()"
OpenIf == "        if ready {"
Close == "    }"

SwiftLines == {SigAsync, SigPlain, Stmt, AwaitStmt, OpenIf, Close}

\* re.match(r'\s+func test\w+.*\)\s+async\s*\{', line)
MatchesAsyncSignature(line) == line = SigAsync

\* 'await' in current_line
HasAwait(line) == line = AwaitStmt

\* current_line.count('{') - current_line.count('}')
BraceDelta(line) ==
    (IF line \in {SigAsync, SigPlain, OpenIf} THEN 1 ELSE 0)
    - (IF line = Close THEN 1 ELSE 0)

\* re.sub(r'\s+async\s*\{', ' {', line)
RemoveAsync(line) == IF line = SigAsync THEN SigPlain ELSE line

\* The inner loop, while i < len(lines) and brace_count > 0, from the index
\* i (counted from 0): the index it stops at, and has_await.
RECURSIVE ScanBody(_, _, _, _)
ScanBody(ls, i, brace_count, has_await) ==
    IF i < Len(ls) /\ brace_count > 0
    THEN ScanBody(ls, i + 1, brace_count + BraceDelta(ls[i + 1]),
                  has_await \/ HasAwait(ls[i + 1]))
    ELSE [i |-> i, has_await |-> has_await]

InitAsync ==
    /\ pc = "start"
    /\ fn_in \in SeqsUpTo(SwiftLines, MaxFnLines) \ {<<>>}
    /\ fn_out = None
    /\ MainIdle /\ ParseIdle

\* lines = content.split('\n'); new_lines = []; i = 0
AsyncSplit ==
    /\ pc = "start"
    /\ pc' = "async_loop"
    /\ line_no' = 0
    /\ fn_out' = <<>>
    /\ UNCHANGED <<fn_in, mainVars, lines, strings, comments, current_comment,
                   comment_buffer>>

\* The else branch: new_lines.append(line); i += 1
AsyncKeepLine ==
    /\ pc = "async_loop"
    /\ line_no < Len(fn_in)
    /\ ~MatchesAsyncSignature(fn_in[line_no + 1])
    /\ fn_out' = Append(fn_out, fn_in[line_no + 1])
    /\ line_no' = line_no + 1
    /\ UNCHANGED <<pc, fn_in, mainVars, lines, strings, comments, current_comment,
                   comment_buffer>>

\* The branch of an async test function: the body is scanned for await up
\* to the closing brace, and the signature line alone is appended.
AsyncScanFunction ==
    /\ pc = "async_loop"
    /\ line_no < Len(fn_in)
    /\ MatchesAsyncSignature(fn_in[line_no + 1])
    /\ LET line == fn_in[line_no + 1]
           scanned == ScanBody(fn_in, line_no + 1, 1, FALSE)
       IN  /\ fn_out' = Append(fn_out, IF ~scanned.has_await THEN RemoveAsync(line)
                                       ELSE line)
           /\ line_no' = scanned.i
    /\ UNCHANGED <<pc, fn_in, mainVars, lines, strings, comments, current_comment,
                   comment_buffer>>

\* content = '\n'.join(new_lines)
AsyncJoin ==
    /\ pc = "async_loop"
    /\ line_no >= Len(fn_in)
    /\ pc' = "joined"
    /\ UNCHANGED <<fnVars, mainVars, parseVars>>

NextAsync == AsyncSplit \/ AsyncKeepLine \/ AsyncScanFunction \/ AsyncJoin
SpecAsync == InitAsync /\ [][NextAsync]_vars

\* The lines of ls with async deleted from the signature of each test
\* function whose body holds no await.
OnlySignaturesChanged(ls) ==
    [k \in 1..Len(ls) |->
        IF MatchesAsyncSignature(ls[k]) /\ ~ScanBody(ls, k, 1, FALSE).has_await
        THEN RemoveAsync(ls[k]) ELSE ls[k]]

\* C19: the async-removal pass gives the input lines in the same order, none
\* added and none removed, with async deleted from the signature line of
\* each test function whose body contains no await; every line of every
\* function body is kept.
C19_OnlySignaturesChange ==
    pc = "joined" => fn_out = OnlySignaturesChanged(fn_in)

\* What the pass does give: the lines outside the async test functions and
\* one signature line for each of these functions, so never more lines than
\* the input has and as many only when no async test function has a body.
AsyncPassKeepsNoBody ==
    pc = "joined"
       => /\ Len(fn_out) <= Len(fn_in)
          /\ \A k \in 1..Len(fn_in) - 1 :
                MatchesAsyncSignature(fn_in[k]) => Len(fn_out) < Len(fn_in)

(***************************************************************************)
(* remove_mainactor_wrapper of remove_mainactor_wrappers.py.  A line is    *)
(* its indentation, counted in steps of 4 spaces, and the text after it;   *)
(* fn_in holds the lines of content, line_no the index i, fn_out the list  *)
(* new_lines and the count fixes.                                          *)
(***************************************************************************)
RUN == "await MainActor.run {"
Indents == {1, 2, 3}
WrapperLines == [indent : Indents, text : {RUN, "let y = 2", "}"}]

\* re.match(r'(\s+)await MainActor\.run\s*\{', line)
StartsWrapper(line) == line.indent >= 1 /\ line.text = RUN

\* current_line.count('{') - current_line.count('}')
WrapperBraceDelta(line) ==
    CASE line.text = RUN -> 1
      [] line.text = "}" -> -1
      [] OTHER -> 0

\* The loop that collects block_lines, from the index i (counted from 0)
\* with brace_count: the index it stops at, and the lines collected.
RECURSIVE CollectBlock(_, _, _, _)
CollectBlock(ls, i, brace_count, block_lines) ==
    IF i < Len(ls) /\ brace_count > 0
    THEN LET count == brace_count + WrapperBraceDelta(ls[i + 1])
         IN  CollectBlock(ls, i + 1, count,
                          IF count > 0 THEN Append(block_lines, ls[i + 1])
                          ELSE block_lines)
    ELSE [i |-> i, block_lines |-> block_lines]

\* One level of indentation, 4 spaces, removed from a block line that
\* starts with indent + 4 spaces; other lines are taken as they are.
FixBlockLine(block_line, indent) ==
    IF block_line.indent >= indent + 1
    THEN [block_line EXCEPT !.indent = @ - 1]
    ELSE block_line

InitWrapper ==
    /\ pc = "start"
    /\ fn_in \in SeqsUpTo(WrapperLines, MaxFnLines) \ {<<>>}
    /\ fn_out = None
    /\ MainIdle /\ ParseIdle

\* fixes = 0; lines = content.split('\n'); new_lines = []; i = 0
WrapperSplit ==
    /\ pc = "start"
    /\ pc' = "wrapper_loop"
    /\ line_no' = 0
    /\ fn_out' = [new_lines |-> <<>>, fixes |-> 0]
    /\ UNCHANGED <<fn_in, mainVars, lines, strings, comments, current_comment,
                   comment_buffer>>

\* The else branch: new_lines.append(line); i += 1
WrapperKeepLine ==
    /\ pc = "wrapper_loop"
    /\ line_no < Len(fn_in)
    /\ ~StartsWrapper(fn_in[line_no + 1])
    /\ fn_out' = [fn_out EXCEPT !.new_lines = Append(@, fn_in[line_no + 1])]
    /\ line_no' = line_no + 1
    /\ UNCHANGED <<pc, fn_in, mainVars, lines, strings, comments, current_comment,
                   comment_buffer>>

\* The branch of a line that starts a block: the block is collected up to
\* its closing brace, its lines are added one level less indented, and the
\* opening and the closing line are left out.
WrapperRemove ==
    /\ pc = "wrapper_loop"
    /\ line_no < Len(fn_in)
    /\ StartsWrapper(fn_in[line_no + 1])
    /\ LET indent == fn_in[line_no + 1].indent
           block == CollectBlock(fn_in, line_no + 1, 1, <<>>)
           fixed_block_lines ==
               [k \in 1..Len(block.block_lines) |->
                   FixBlockLine(block.block_lines[k], indent)]
       IN  /\ fn_out' = [new_lines |-> fn_out.new_lines \o fixed_block_lines,
                         fixes |-> fn_out.fixes + 1]
           /\ line_no' = block.i
    /\ UNCHANGED <<pc, fn_in, mainVars, lines, strings, comments, current_comment,
                   comment_buffer>>

\* return '\n'.join(new_lines), fixes
WrapperReturn ==
    /\ pc = "wrapper_loop"
    /\ line_no >= Len(fn_in)
    /\ pc' = "returned"
    /\ UNCHANGED <<fnVars, mainVars, parseVars>>

NextWrapper == WrapperSplit \/ WrapperKeepLine \/ WrapperRemove \/ WrapperReturn
SpecWrapper == InitWrapper /\ [][NextWrapper]_vars

\* The depth of braces after the first n lines of ls.
RECURSIVE Depth(_, _)
Depth(ls, n) == IF n = 0 THEN 0 ELSE Depth(ls, n - 1) + WrapperBraceDelta(ls[n])

\* Every closing brace closes an open one, and none is left open.
BraceBalanced(ls) ==
    /\ \A n \in 1..Len(ls) : Depth(ls, n) >= 0
    /\ Depth(ls, Len(ls)) = 0

WrapperStarts(ls) == {k \in 1..Len(ls) : StartsWrapper(ls[k])}

\* C20: for every brace-balanced input, the returned content holds no line
\* that starts an await MainActor.run block, and the returned number of
\* fixes is the number of such lines in the input, those nested inside
\* another wrapper included.
C20_EveryWrapperRemoved ==
    pc = "returned" /\ BraceBalanced(fn_in)
       => /\ WrapperStarts(fn_out.new_lines) = {}
          /\ fn_out.fixes = Cardinality(WrapperStarts(fn_in))

\* A wrapper of ls lies inside the block of another one.
NestedWrapper(ls) ==
    \E k, j \in WrapperStarts(ls) : k < j /\ j <= CollectBlock(ls, k, 1, <<>>).i

\* What does hold: the wrappers of a brace-balanced input are all removed
\* and counted when none of them is nested in another.
WrappersRemovedWhenNotNested ==
    pc = "returned" /\ BraceBalanced(fn_in) /\ ~NestedWrapper(fn_in)
       => /\ WrapperStarts(fn_out.new_lines) = {}
          /\ fn_out.fixes = Cardinality(WrapperStarts(fn_in))

(***************************************************************************)
(* fix_brace_balance of fix_brace_balance.py.  A line is the sequence of   *)
(* its tokens: "lb" an opening brace, "rb" a closing one, "x" other text.  *)
(* fn_in holds the lines of the file, line_no the number of lines the loop *)
(* has taken, fn_out the list fixed_lines and the running brace_count.     *)
(***************************************************************************)
BraceLines ==
    { <<"x">>, <<"x", "lb">>, <<"rb">>, <<"rb", "rb">>, <<"rb", "x", "lb">>,
      <<"lb", "rb", "rb">> }

\* line.count(tok)
CountTok(line, tok) == Cardinality({i \in DOMAIN line : line[i] = tok})

\* A variant of the replacement that takes every closing brace out.
RECURSIVE ReplaceEvery(_, _)
ReplaceEvery(line, n) ==
    IF line = <<>> THEN <<>>
    ELSE IF Head(line) = "rb" THEN ReplaceEvery(Tail(line), n)
    ELSE <<Head(line)>> \o ReplaceEvery(Tail(line), n)

\* line.replace('}', '', n): the first n closing braces are taken out.
RECURSIVE ReplaceFirst(_, _)
ReplaceFirst(line, n) ==
    IF line = <<>> \/ n = 0 THEN line
    ELSE IF Head(line) = "rb" THEN ReplaceFirst(Tail(line), n - 1)
    ELSE <<Head(line)>> \o ReplaceFirst(Tail(line), n)

InitBrace ==
    /\ pc = "start"
    /\ fn_in \in SeqsUpTo(BraceLines, MaxFnLines) \ {<<>>}
    /\ fn_out = None
    /\ MainIdle /\ ParseIdle

\* lines = content.split('\n'); brace_count = 0; fixed_lines = []
BraceSplit ==
    /\ pc = "start"
    /\ pc' = "brace_loop"
    /\ line_no' = 0
    /\ fn_out' = [fixed_lines |-> <<>>, brace_count |-> 0]
    /\ UNCHANGED <<fn_in, mainVars, lines, strings, comments, current_comment,
                   comment_buffer>>

\* The body of the loop for one line: the count is updated, the excess of
\* closing braces is taken out of the line, and the line is appended.
FixLine ==
    /\ pc = "brace_loop"
    /\ line_no < Len(fn_in)
    /\ LET line == fn_in[line_no + 1]
           count == fn_out.brace_count + CountTok(line, "lb") - CountTok(line, "rb")
       IN  fn_out' = IF count < 0
                     THEN [fixed_lines |-> Append(fn_out.fixed_lines,
                                                  ReplaceFirst(line, -count)),
                           brace_count |-> 0]
                     ELSE [fixed_lines |-> Append(fn_out.fixed_lines, line),
                           brace_count |-> count]
    /\ line_no' = line_no + 1
    /\ UNCHANGED <<pc, fn_in, mainVars, lines, strings, comments, current_comment,
                   comment_buffer>>

\* After the loop: the missing closing braces are appended as one line, and
\* the content is written when it differs from the original.
AppendMissing ==
    /\ pc = "brace_loop"
    /\ line_no >= Len(fn_in)
    /\ fn_out' = IF fn_out.brace_count > 0
                 THEN [fn_out EXCEPT !.fixed_lines =
                          Append(@, [i \in 1..fn_out.brace_count |-> "rb"])]
                 ELSE fn_out
    /\ pc' = "fixed"
    /\ UNCHANGED <<fn_in, mainVars, parseVars>>

NextBrace == BraceSplit \/ FixLine \/ AppendMissing
SpecBrace == InitBrace /\ [][NextBrace]_vars

\* Opening minus closing braces of the first n lines of ls.
RECURSIVE RunningCount(_, _)
RunningCount(ls, n) ==
    IF n = 0 THEN 0
    ELSE RunningCount(ls, n - 1) + CountTok(ls[n], "lb") - CountTok(ls[n], "rb")

\* The line without its closing braces.
OtherTokens(line) == SelectSeq(line, LAMBDA t : t # "rb")

\* C21: the content fix_brace_balance leaves has as many closing as opening
\* braces, its running count is never negative after any line, closing
\* braces are taken out only of lines where the running count would go
\* negative, and closing braces are appended only at the end of the file.
C21_BraceBalanced ==
    pc = "fixed"
       => LET out == fn_out.fixed_lines
          IN  /\ RunningCount(out, Len(out)) = 0
              /\ \A n \in 1..Len(out) : RunningCount(out, n) >= 0
              /\ Len(out) \in {Len(fn_in), Len(fn_in) + 1}
              /\ \A k \in 1..Len(fn_in) :
                    \/ out[k] = fn_in[k]
                    \/ /\ RunningCount(out, k - 1) + CountTok(fn_in[k], "lb")
                             - CountTok(fn_in[k], "rb") < 0
                       /\ OtherTokens(out[k]) = OtherTokens(fn_in[k])
                       /\ CountTok(out[k], "rb") < CountTok(fn_in[k], "rb")
              /\ Len(out) = Len(fn_in) + 1
                    => out[Len(out)] # <<>> /\ OtherTokens(out[Len(out)]) = <<>>

\* A file with a closing brace too many on one line and an opening brace
\* left open at the end: a brace was taken out and a line was appended.
C21_Witness ==
    /\ pc = "fixed"
    /\ Len(fn_out.fixed_lines) = Len(fn_in) + 1
    /\ \E k \in 1..Len(fn_in) : fn_out.fixed_lines[k] # fn_in[k]

(***************************************************************************)
(* add_test_suite_annotations.py: process_file and the functions it calls. *)
(* A file is the sequence of its lines; positions count from 1, where the  *)
(* code counts from 0.  fn_in holds the file as it was before the first    *)
(* run, fn_out the file as it is and what the runs returned.               *)
(***************************************************************************)
IMPORT == "import Testing"
TESTABLE == "@testable import SixLayerFramework"
ATTR_IMPORT == "@preconcurrency import Foundation"
ATTR == "@MainActor"
OLD_SUITE == "@Suite(\"Old\")"
COMMENT == "/// documentation"
CODE == "let shared = 1"
CLASS == "final class FooTests {"
TEST == "    @Test func testA() {}"

\* suite_annotation, with the name extract_suite_name gives for FooTests
NEW_SUITE == "@Suite(\"Foo\")"

\* The windows of already_has_suite and of add_suite_annotation.
LOOKBACK == 10
WALKBACK == 15

HeaderLines == {IMPORT, TESTABLE, ATTR_IMPORT, ATTR, OLD_SUITE, COMMENT, CODE}

\* The files: a head, comment lines, at most one more line, the test class
\* and its test function; or the class alone, without a test function.
SuiteFiles ==
    {pre \o [i \in 1..gap |-> COMMENT] \o post \o tail :
        pre \in SeqsUpTo(HeaderLines, MaxHeader), gap \in 0..MaxGap,
        post \in SeqsUpTo(HeaderLines, 1), tail \in {<<CLASS, TEST>>, <<CLASS>>}}

\* "@Test" in content
has_test_functions(ls) == \E k \in 1..Len(ls) : ls[k] = TEST

\* The position of the first line the class pattern matches; 0 for None.
find_test_class_or_struct(ls) ==
    IF \E k \in 1..Len(ls) : ls[k] = CLASS
    THEN CHOOSE k \in 1..Len(ls) : ls[k] = CLASS /\ \A j \in 1..(k - 1) : ls[j] # CLASS
    ELSE 0

\* "@Suite" in stripped and not stripped.startswith("//")
MentionsSuite(line) == line \in {OLD_SUITE, NEW_SUITE}

\* already_has_suite(lines, class_line)
already_has_suite(ls, c) ==
    \E k \in 1..(c - 1) : k >= c - LOOKBACK /\ MentionsSuite(ls[k])

\* The backward walk of add_suite_annotation from the position k: the
\* position of the first attribute it meets, or that of the class c.
RECURSIVE WalkBack(_, _, _)
WalkBack(ls, k, c) ==
    IF k < 1 \/ k <= c - WALKBACK THEN c
    ELSE IF ls[k] = COMMENT THEN WalkBack(ls, k - 1, c)
    ELSE IF ls[k] \in {ATTR, ATTR_IMPORT, OLD_SUITE, NEW_SUITE} THEN k
    ELSE IF ls[k] \notin {IMPORT, TESTABLE} THEN c
    ELSE WalkBack(ls, k - 1, c)

\* lines[i].strip().startswith("import")
StartsWithImport(line) == line = IMPORT

\* add_suite_annotation(lines, class_line, suite_name)
add_suite_annotation(ls, c) ==
    LET found == WalkBack(ls, c - 1, c)
        lo == IF found - 1 > 1 THEN found - 1 ELSE 1
        insert_line ==
            IF \E k \in lo..(c - 1) : StartsWithImport(ls[k]) THEN c ELSE found
    IN  SubSeq(ls, 1, insert_line - 1) \o <<NEW_SUITE>> \o SubSeq(ls, insert_line, Len(ls))

InitSuite ==
    /\ pc = "start"
    /\ fn_in \in SuiteFiles
    /\ fn_out = [file |-> fn_in, returned |-> <<>>]
    /\ MainIdle /\ ParseIdle

\* process_file(file_path), run once and once more; writing the file back
\* succeeds or fails.
ProcessFile ==
    /\ pc \in {"start", "once"}
    /\ pc' = IF pc = "start" THEN "once" ELSE "twice"
    /\ LET ls == fn_out.file
           c == find_test_class_or_struct(ls)
       IN  IF ~has_test_functions(ls) \/ c = 0 \/ already_has_suite(ls, c)
           THEN fn_out' = [fn_out EXCEPT !.returned = Append(@, FALSE)]
           ELSE \E written \in BOOLEAN :
                   fn_out' = IF written
                             THEN [file |-> add_suite_annotation(ls, c),
                                   returned |-> Append(fn_out.returned, TRUE)]
                             ELSE [fn_out EXCEPT !.returned = Append(@, FALSE)]
    /\ UNCHANGED <<fn_in, mainVars, parseVars>>

NextSuite == ProcessFile
SpecSuite == InitSuite /\ [][NextSuite]_vars

\* The positions of the @Suite lines of ls.
SuiteLines(ls) == {k \in 1..Len(ls) : MentionsSuite(ls[k])}

\* A @Suite annotation stands above the first test class of ls.
SuiteAbove(ls) ==
    LET c == find_test_class_or_struct(ls)
    IN  c > 0 /\ \E k \in SuiteLines(ls) : k < c

\* C22: a file whose first test class already has a @Suite annotation above
\* it is not modified, and a second run of process_file on a file the first
\* run annotated returns False and adds no second @Suite.
C22_SuiteIdempotent ==
    /\ pc \in {"once", "twice"} /\ SuiteAbove(fn_in)
          => fn_out.file = fn_in /\ \A i \in 1..Len(fn_out.returned) : ~fn_out.returned[i]
    /\ pc = "twice" /\ fn_out.returned[1]
          => ~fn_out.returned[2] /\ Cardinality(SuiteLines(fn_out.file)) = 1

\* What does hold: when the annotation stands within the ten lines above
\* the class, the file is left as it is.
SuiteNearClassPreserved ==
    /\ pc \in {"once", "twice"}
    /\ LET c == find_test_class_or_struct(fn_in)
       IN  c > 0 /\ already_has_suite(fn_in, c)
    => fn_out.file = fn_in /\ \A i \in 1..Len(fn_out.returned) : ~fn_out.returned[i]

\* An import statement, with or without an attribute before the keyword.
ImportStatement(line) == line \in {IMPORT, TESTABLE, ATTR_IMPORT}

\* The first run has inserted the @Suite line.
Annotated == pc = "once" /\ fn_out.returned = <<TRUE>>

\* C23: in the output of add_suite_annotation no import statement, plain or
\* @testable, stands between the inserted @Suite line and the class or
\* struct declaration it annotates.
C23_SuiteNotBeforeImport ==
    Annotated
       => LET ls == fn_out.file
              c == find_test_class_or_struct(ls)
          IN  \A s \in 1..(c - 1) :
                 ls[s] = NEW_SUITE
                    => \A k \in (s + 1)..(c - 1) : ~ImportStatement(ls[k])

\* What does hold: no line that begins with the word import stands between
\* the inserted line and the class.
NoPlainImportAfterSuite ==
    Annotated
       => LET ls == fn_out.file
              c == find_test_class_or_struct(ls)
          IN  \A s \in 1..(c - 1) :
                 ls[s] = NEW_SUITE
                    => \A k \in (s + 1)..(c - 1) : ~StartsWithImport(ls[k])

(***************************************************************************)
(* fix_suite_placement of fix_suite_on_imports.py, on the files of         *)
(* SuiteFiles.  fn_in holds the file as it was, fn_out the file as it is   *)
(* and what the function returned.                                         *)
(***************************************************************************)
\* The look-ahead of the first pass from the position j, up to the position
\* last: the next line that is neither empty nor a comment is an import.
RECURSIVE NextImport(_, _, _)
NextImport(ls, j, last) ==
    IF j > last \/ j > Len(ls) THEN FALSE
    ELSE IF ls[j] = COMMENT THEN NextImport(ls, j + 1, last)
    ELSE IF StartsWithImport(ls[j]) THEN TRUE
    ELSE IF ls[j] \in {CODE, CLASS} THEN FALSE
    ELSE NextImport(ls, j + 1, last)

\* The first class or struct declaration at or after the position i; 0 for None.
ClassFrom(ls, i) ==
    IF \E k \in i..Len(ls) : ls[k] = CLASS
    THEN CHOOSE k \in i..Len(ls) : ls[k] = CLASS /\ \A j \in i..(k - 1) : ls[j] # CLASS
    ELSE 0

\* The first pass takes the line at the position i out: it is a @Suite line
\* before an import, a class follows, and no @Suite line stands in the 10
\* lines above that class.
Misplaced(ls, i) ==
    /\ MentionsSuite(ls[i])
    /\ NextImport(ls, i + 1, i + 4)
    /\ LET c == ClassFrom(ls, i)
       IN  c > 0 /\ ~already_has_suite(ls, c)

\* new_lines after the first pass.
RemovePass(ls) == SelectSeq([k \in 1..Len(ls) |-> <<k, ls[k]>>],
                            LAMBDA e : ~Misplaced(ls, e[1]))

\* The backward walk of the second pass over final_lines from the position
\* k: the position of @MainActor or @available, or 0 when it meets none.
RECURSIVE WalkToAttribute(_, _, _)
WalkToAttribute(final, k, low) ==
    IF k < 1 \/ k < low THEN 0
    ELSE IF final[k] = ATTR THEN k
    ELSE IF final[k] \notin {COMMENT, IMPORT} THEN 0
    ELSE WalkToAttribute(final, k - 1, low)

\* The second pass, from the line i of new_lines on, with final_lines.
RECURSIVE InsertPass(_, _, _)
InsertPass(new, i, final) ==
    IF i > Len(new) THEN final
    ELSE IF new[i] = CLASS /\ ~already_has_suite(Append(final, new[i]), Len(final) + 1)
    THEN LET n == Len(final)
             found == WalkToAttribute(final, n, n - 8)
             insert_idx == IF found = 0 THEN n + 1 ELSE found
         IN  InsertPass(new, i + 1,
                        SubSeq(final, 1, insert_idx - 1) \o <<NEW_SUITE>>
                        \o SubSeq(final, insert_idx, n) \o <<new[i]>>)
    ELSE InsertPass(new, i + 1, Append(final, new[i]))

InitFixSuite ==
    /\ pc = "start"
    /\ fn_in \in SuiteFiles
    /\ fn_out = [file |-> fn_in, returned |-> <<>>]
    /\ MainIdle /\ ParseIdle

\* fix_suite_placement(file_path); writing the file back succeeds or fails.
FixSuitePlacement ==
    /\ pc = "start"
    /\ pc' = "placed"
    /\ LET kept == RemovePass(fn_in)
           new_lines == [k \in 1..Len(kept) |-> kept[k][2]]
           modified == Len(new_lines) # Len(fn_in)
       IN  IF ~modified
           THEN fn_out' = [fn_out EXCEPT !.returned = <<FALSE>>]
           ELSE \E written \in BOOLEAN :
                   fn_out' = IF written
                             THEN [file |-> InsertPass(new_lines, 1, <<>>),
                                   returned |-> <<TRUE>>]
                             ELSE [fn_out EXCEPT !.returned = <<FALSE>>]
    /\ UNCHANGED <<fn_in, mainVars, parseVars>>

NextFixSuite == FixSuitePlacement
SpecFixSuite == InitFixSuite /\ [][NextFixSuite]_vars

\* The position of the next line after s that is not a comment; 0 for none.
NextStatement(ls, s) ==
    IF \E k \in (s + 1)..Len(ls) : ls[k] # COMMENT
    THEN CHOOSE k \in (s + 1)..Len(ls) :
            ls[k] # COMMENT /\ \A j \in (s + 1)..(k - 1) : ls[j] = COMMENT
    ELSE 0

\* The @Suite lines of ls that stand before an import statement.
BeforeImport(ls) ==
    {s \in SuiteLines(ls) :
        NextStatement(ls, s) # 0 /\ ImportStatement(ls[NextStatement(ls, s)])}

\* The file could be written, or there was nothing to write.
PlacementDone ==
    pc = "placed" /\ (fn_out.returned = <<TRUE>> \/ Len(RemovePass(fn_in)) = Len(fn_in))

\* C24: after fix_suite_placement no @Suite line has an import statement as
\* its next line that is neither blank nor a comment, and the test class is
\* preceded by a @Suite annotation with the suite name of the one removed.
C24_SuiteMovedToClass ==
    PlacementDone /\ find_test_class_or_struct(fn_in) > 0
       => /\ BeforeImport(fn_out.file) = {}
          /\ \A s \in BeforeImport(fn_in) :
                \E k \in SuiteLines(fn_out.file) :
                   /\ fn_out.file[k] = fn_in[s]
                   /\ k < find_test_class_or_struct(fn_out.file)
                   /\ k \notin BeforeImport(fn_out.file)

\* What does hold: a file the function has changed has a @Suite line in the
\* 10 lines above its test class.
ChangedFileHasSuiteAtClass ==
    pc = "placed" /\ fn_out.returned = <<TRUE>>
       => LET c == find_test_class_or_struct(fn_out.file)
          IN  c > 0 /\ already_has_suite(fn_out.file, c)

(***************************************************************************)
(* generate_missing_translations.py: main() for one language (--lang) and  *)
(* update_language_file.  fn_in holds the English file, the language file  *)
(* (None when it does not exist) and --dry-run; fn_out the language file   *)
(* as it is, and as it was after the first run.                            *)
(***************************************************************************)
\* The keys of the files, in sorted order: A.b and A\c.
TranslateKeyOrder == << <<"A.b">>, <<"A", B, "c">> >>

\* "key" = "value"; and the line feed, with the key and the value as given.
EntryLine(key, value) ==
    <<Q>> \o key \o <<Q, "sp", "eq", "sp", Q>> \o value \o <<Q, "sc", NL>>

\* The files: for each key no entry, or an entry with one of the values.
RECURSIVE EntryFiles(_, _)
EntryFiles(i, values) ==
    IF i > Len(TranslateKeyOrder) THEN {<<>>}
    ELSE {head \o rest :
             head \in {<<>>} \cup {EntryLine(TranslateKeyOrder[i], v) : v \in values},
             rest \in EntryFiles(i + 1, values)}

TranslateInputs ==
    [en : {None} \cup {Some(f) : f \in EntryFiles(1, {<<>>, <<"v">>})},
     lang : {None} \cup {Some(f) : f \in EntryFiles(1, {<<"w">>})},
     dry_run : BOOLEAN]

\* What translate_text may return for a text: a translation, or the text
\* itself when the translation fails.
Translated(text) == {text, <<"t">>, <<"t", Q>>, <<"t", B>>}

\* The translations list of update_language_file for the missing keys from
\* the i-th on, tr[key] being the translation of the key's English value.
RECURSIVE TranslationLines(_, _, _, _)
TranslationLines(i, missing_keys, en_strings, tr) ==
    IF i > Len(TranslateKeyOrder) THEN <<>>
    ELSE LET key == TranslateKeyOrder[i]
         IN  (IF key \in missing_keys /\ en_strings[key] # <<>>
              THEN EntryLine(escape_string(key), escape_string(tr[key]))
              ELSE <<>>)
             \o TranslationLines(i + 1, missing_keys, en_strings, tr)

\* What update_language_file appends to the file: a line feed, the header
\* comment, the section comment and the translations.
Appended(missing_keys, en_strings, tr) ==
    <<NL, "co", "sp", "MACHINE TRANSLATIONS", "sp", "cc", NL>>
    \o <<NL, "co", "sp", "PLATFORM SPECIFIC", "sp", "cc", NL>>
    \o TranslationLines(1, missing_keys, en_strings, tr)

InitTranslate ==
    /\ pc = "start"
    /\ fn_in \in TranslateInputs
    /\ fn_out = [lang |-> fn_in.lang, first |-> None]
    /\ MainIdle /\ ParseIdle

\* main(), run once and once more.  Without the English file it returns 1;
\* a language without a file is skipped; the missing keys of the language
\* are translated and appended to its file, unless --dry-run is given.
\* Appending succeeds or raises.
TranslateMain ==
    /\ pc \in {"start", "once"}
    /\ LET after == IF pc = "start" THEN "once" ELSE "twice"
           kept == [lang |-> fn_out.lang, first |-> IF pc = "start" THEN fn_out.lang
                                                    ELSE fn_out.first]
       IN  IF fn_in.en = None \/ fn_out.lang = None
           THEN pc' = after /\ fn_out' = kept
           ELSE LET en_strings == ParseContent(fn_in.en[1])
                    missing == DOMAIN en_strings \ DOMAIN ParseContent(fn_out.lang[1])
                IN  IF missing = {} \/ fn_in.dry_run
                    THEN pc' = after /\ fn_out' = kept
                    ELSE \E tr \in [missing -> UNION {Translated(en_strings[k]) : k \in missing}],
                            written \in BOOLEAN :
                            /\ \A k \in missing : tr[k] \in Translated(en_strings[k])
                            /\ IF written
                               THEN LET new == Some(fn_out.lang[1]
                                                    \o Appended(missing, en_strings, tr))
                                    IN  /\ pc' = after
                                        /\ fn_out' = [lang |-> new,
                                                      first |-> IF pc = "start" THEN new
                                                                ELSE fn_out.first]
                               ELSE pc' = "crashed" /\ fn_out' = fn_out
    /\ UNCHANGED <<fn_in, mainVars, parseVars>>

NextTranslate == TranslateMain
SpecTranslate == InitTranslate /\ [][NextTranslate]_vars

\* A run that is not a dry run has ended for a language whose file exists.
Updated ==
    /\ pc \in {"once", "twice"}
    /\ ~fn_in.dry_run /\ fn_in.en # None /\ fn_in.lang # None

\* C25: after a run that is not a dry run, for a language whose file
\* exists, parsing that file again yields every key of the English file,
\* and a second run appends nothing.
C25_SecondRunAppendsNothing ==
    /\ Updated
          => DOMAIN ParseContent(fn_in.en[1]) \subseteq DOMAIN ParseContent(fn_out.lang[1])
    /\ Updated /\ pc = "twice" => fn_out.lang = fn_out.first

\* What does hold: the keys without a backslash whose English value is not
\* empty are in the file after the run.
TranslatedKeysPresent ==
    Updated
       => LET en_strings == ParseContent(fn_in.en[1])
          IN  \A k \in DOMAIN en_strings :
                 en_strings[k] # <<>> /\ ~Contains(k, B)
                    => k \in DOMAIN ParseContent(fn_out.lang[1])

=============================================================================
